---- MODULE Spec2Model ----
(***************************************************************************)
(* askalono: license identification by bigram Dice similarity.             *)
(*                                                                         *)
(* Texts are modelled at the token level.  A word is a string of           *)
(* lower-case letters, a line is a sequence of words (the line's text is   *)
(* its words joined by one space) and a document is a sequence of lines    *)
(* (the text is the lines joined by "\n").  The words of Words have        *)
(* pairwise distinct first bytes, so the byte-wise common prefix of two    *)
(* lines, once trimmed, is exactly their common leading words, and         *)
(* str::starts_with / str::strip_prefix on lines are prefix tests on word  *)
(* sequences.  No word contains "license" or "copyright" and no line has   *)
(* punctuation, upper case, or surrounding blanks, so on these inputs the  *)
(* per-line normalizers and the title / copyright / punctuation passes of  *)
(* the aggressive preprocessor leave the words as they are.                *)
(*                                                                         *)
(* An f32 score is the pair <<num, den>> in lowest terms; <<0, 0>> is the  *)
(* NaN that 0.0 / 0.0 yields.  Every quotient of the model has operands    *)
(* far below 2^24, so f32 rounding keeps distinct quotients distinct and   *)
(* the order of the rationals is the order of the floats.                  *)
(***************************************************************************)
EXTENDS Integers, Sequences, FiniteSets, TLC

VARIABLES
    t,          \* Spec: the TextData value the caller holds
    last,       \* Spec: what the last TextData operation was and returned
    na, nb,     \* SpecDice: two NgramSets
    dres,       \* SpecDice: the results of the last dice calls
    licenses,   \* Store.licenses, license name -> LicenseEntry
    slast,      \* SpecStore: what the last Store operation was and returned
    iteration,  \* the order in which Store.licenses iterates its keys
    insertion,  \* SpecAnalyze: the calls that built the Store, in order
    query,      \* SpecAnalyze: the TextData handed to analyze
    par,        \* SpecAnalyze: what analyze_parallel returned for query
    single,     \* SpecAnalyze: what analyze_single_thread returned for query
    strategy,   \* SpecScan: the configured ScanStrategy
    input,      \* SpecScan: the TextData handed to scan
    pc,         \* SpecScan: where the running scan is
    frame,      \* SpecScan: the local variables of the running scan
    result,     \* SpecScan: what scan returned
    calls,      \* SpecScan: the calls the scan made so far, in order
    arg,        \* the arguments of the function call under study
    ret         \* what that call returned, once it has

\* the variables of SpecAnalyze and of SpecScan
avars == <<iteration, insertion, query, par, single>>
svars == <<strategy, input, pc, frame, result, calls>>

\* the variables of the specifications of single function calls
xvars == <<arg, ret>>

vars == <<t, last, na, nb, dres, licenses, slast, avars, svars, xvars>>

----------------------------------------------------------------------------
(* Bounds and input alphabets *)

\* longest document, in lines, of the exhaustively enumerated documents
MaxLines == 3
\* longest word sequence an NgramSet of SpecDice is built from
MaxWords == 4
\* most headers (and most alternates) one LicenseEntry receives
MaxVariants == 2

Words == {"a", "b", "c", "d", "pppp", "q"}

\* lines of the exhaustively enumerated documents
BodyLines == {<<>>, <<"a", "b">>, <<"c", "d">>}

\* lines that share a leading token of more than 3 bytes
PrefixLines == {<<"pppp">>, <<"pppp", "q">>}

AllLines == BodyLines \cup PrefixLines

\* documents: every sequence of 1..MaxLines body lines, and a few longer or
\* prefixed ones (a blank-padded document, a comment-leader document)
ExtraTexts ==
    { << <<"a", "b">>, <<"a", "b">>, <<"c", "d">>, <<"c", "d">> >>,
      << <<"c", "d">>, <<"a", "b">>, <<>>, <<>>, <<>> >>,
      << <<"pppp">>, <<"pppp", "q">>, <<"pppp", "q">> >>,
      << <<"pppp", "q">>, <<"pppp", "q">>, <<"pppp">> >> }

Texts == (UNION {[1..n -> BodyLines] : n \in 1..MaxLines}) \cup ExtraTexts

\* the texts of the `other` TextData (the license side of a comparison)
OtherTexts ==
    { << <<>> >>,
      << <<"a", "b">> >>,
      << <<"a", "b">>, <<"c", "d">>, <<"c", "d">> >> }

----------------------------------------------------------------------------
(* f32 scores *)

NaN == <<0, 0>>
Zero == <<0, 1>>
One == <<1, 1>>

RECURSIVE Gcd(_, _)
Gcd(a, b) == IF b = 0 THEN a ELSE Gcd(b, a % b)

\* a as f32 / b as f32, for naturals a, b
F32Div(a, b) ==
    IF b = 0 THEN NaN   \* only 0.0 / 0.0 arises: a <= b throughout
    ELSE LET g == Gcd(a, b) IN <<a \div g, b \div g>>

IsNaN(x) == x[2] = 0

\* IEEE comparisons: every comparison with a NaN is false
FGe(x, y) == ~IsNaN(x) /\ ~IsNaN(y) /\ x[1] * y[2] >= y[1] * x[2]
FGt(x, y) == ~IsNaN(x) /\ ~IsNaN(y) /\ x[1] * y[2] > y[1] * x[2]
FLt(x, y) == FGt(y, x)
FEq(x, y) == ~IsNaN(x) /\ ~IsNaN(y) /\ x = y

----------------------------------------------------------------------------
(* NgramSet (src/src/ngram.rs) *)

Min(a, b) == IF a < b THEN a ELSE b

RECURSIVE SumOver(_, _)
\* the sum of f[x] over x in S
SumOver(f, S) ==
    IF S = {} THEN 0
    ELSE LET x == CHOOSE y \in S : TRUE IN f[x] + SumOver(f, S \ {x})

\* NgramSet::new
ngram_new(n) == [map |-> <<>>, n |-> n, size |-> 0]

\* NgramSet::add_gram; a gram is the sequence of its words
add_gram(set, gram) ==
    [map |-> IF gram \in DOMAIN set.map
             THEN [set.map EXCEPT ![gram] = @ + 1]
             ELSE [g \in DOMAIN set.map \cup {gram} |->
                      IF g = gram THEN 1 ELSE set.map[g]],
     n |-> set.n,
     size |-> set.size + 1]

\* str::split(' ') of a processed text: the empty text is one empty word
split_words(s) == IF s = <<>> THEN <<"">> ELSE s

RECURSIVE analyze_from(_, _, _)
\* NgramSet::analyze from word i on: slide a window of n words
analyze_from(set, words, i) ==
    IF i + set.n - 1 > Len(words) THEN set
    ELSE analyze_from(add_gram(set, SubSeq(words, i, i + set.n - 1)), words, i + 1)

\* NgramSet::from_str
from_str(s, n) == analyze_from(ngram_new(n), split_words(s), 1)

\* NgramSet::get
ngram_get(set, gram) == IF gram \in DOMAIN set.map THEN set.map[gram] ELSE 0

\* a plausible slip: count a gram once however often it occurs
dice_distinct(self, other) ==
    IF other.n # self.n THEN Zero
    ELSE LET x == IF self.size < other.size THEN self ELSE other
             y == IF self.size < other.size THEN other ELSE self
             hit == [g \in DOMAIN x.map |-> Min(1, ngram_get(y, g))]
         IN  F32Div(2 * SumOver(hit, DOMAIN x.map), self.size + other.size)

\* NgramSet::dice
dice(self, other) ==
    IF other.n # self.n THEN Zero
    ELSE LET x == IF self.size < other.size THEN self ELSE other
             y == IF self.size < other.size THEN other ELSE self
             hit == [g \in DOMAIN x.map |-> Min(x.map[g], ngram_get(y, g))]
             matches == SumOver(hit, DOMAIN x.map)
         IN  F32Div(2 * matches, self.size + other.size)

----------------------------------------------------------------------------
(* Preprocessor (src/src/preproc.rs) *)

\* PREPROC_NORMALIZE on each line of text.split('\n'); one output line per
\* input line, in order
apply_normalizers(text) == [i \in 1..Len(text) |-> text[i]]

RECURSIVE ByteLen(_)
\* str::len of a line: its words and the single spaces between them
ByteLen(ws) ==
    IF ws = <<>> THEN 0
    ELSE Len(Head(ws)) + (IF Len(ws) > 1 THEN 1 ELSE 0) + ByteLen(Tail(ws))

RECURSIVE CommonLen(_, _)
\* how many leading words two lines share
CommonLen(a, b) ==
    IF a = <<>> \/ b = <<>> \/ Head(a) # Head(b) THEN 0
    ELSE 1 + CommonLen(Tail(a), Tail(b))

\* lcs_substr: the common byte prefix, cut at a character boundary, trimmed
lcs_substr(f_line, s_line) == SubSeq(f_line, 1, CommonLen(f_line, s_line))

\* str::starts_with
starts_with(s, p) == Len(p) <= Len(s) /\ SubSeq(s, 1, Len(p)) = p

\* the keys prefix_counts can hold: common prefixes longer than 3 bytes
PrefixKeys ==
    {p \in UNION {{SubSeq(l, 1, k) : k \in 0..Len(l)} : l \in AllLines} : ByteLen(p) > 3}

\* the keys the prefix_counts of these lines, or of any part of them, can hold
KeysOf(lines) ==
    {p \in PrefixKeys : \E i \in 1..Len(lines) : starts_with(lines[i], p)}

\* HashMap iteration order is unspecified (RandomState seeds every map
\* anew): an order is a ranking of the keys a map can hold, and the map
\* iterates its keys by increasing rank
HashOrders(lines) ==
    {r \in [KeysOf(lines) -> 1..Cardinality(KeysOf(lines))] :
        \A p, q \in KeysOf(lines) : p # q => r[p] # r[q]}

\* pass 1 of remove_common_tokens: prefix_counts, entry(common).or_insert(1) += 1
prefix_counts(lines) ==
    LET commons == [i \in 1..(Len(lines) - 1) |-> lcs_substr(lines[i], lines[i + 1])]
        keys == {commons[i] : i \in {j \in DOMAIN commons : ByteLen(commons[j]) > 3}}
    IN  [p \in keys |-> 1 + Cardinality({i \in DOMAIN commons : commons[i] = p})]

\* Iterator::max_by_key over the map: of the keys with the highest count,
\* the one iterated last
most_common_of(counts, ord) ==
    LET top == {p \in DOMAIN counts : \A q \in DOMAIN counts : counts[q] <= counts[p]}
    IN  CHOOSE p \in top : \A q \in top : ord[q] <= ord[p]

\* (0.8f32 * lines.len() as f32) as u32
prefix_threshold(n) == (4 * n) \div 5

\* remove_common_tokens
remove_common_tokens(lines, ord) ==
    LET counts == prefix_counts(lines) IN
    IF DOMAIN counts = {} THEN lines
    ELSE LET most_common == most_common_of(counts, ord)
             longer == {s \in DOMAIN counts : starts_with(s, most_common)}
             common_count == SumOver(counts, longer)
         IN  IF common_count < prefix_threshold(Len(lines)) THEN lines
             ELSE [i \in 1..Len(lines) |->
                      IF starts_with(lines[i], most_common)
                      THEN SubSeq(lines[i], Len(most_common) + 1, Len(lines[i]))
                      ELSE lines[i]]

RECURSIVE collapse_whitespace(_)
\* collapse_whitespace and trim: every run of blanks and newlines becomes one
\* space, so the processed text is the words of all lines in order
collapse_whitespace(lines) ==
    IF lines = <<>> THEN <<>> ELSE Head(lines) \o collapse_whitespace(Tail(lines))

\* apply_aggressive on lines joined by "\n"; the result is the sequence of
\* words of the processed string
apply_aggressive(lines, ord) == collapse_whitespace(remove_common_tokens(lines, ord))

----------------------------------------------------------------------------
(* TextData (src/src/license.rs) *)

\* Option<T>
None == <<>>
Some(x) == <<x>>
is_some(opt) == opt # <<>>
unwrap(opt) == opt[1]

\* TextData::new; `text` is the input split at '\n'
textdata_new(text, ord) ==
    LET normalized == apply_normalizers(text)
        processed == apply_aggressive(normalized, ord)
    IN  [match_data |-> from_str(processed, 2),
         lines_view |-> <<0, Len(normalized)>>,
         lines_normalized |-> Some(normalized),
         text_processed |-> Some(processed)]

\* a plausible slip: the view of the discarded text is kept
without_text_keeps_view(self) ==
    [match_data |-> self.match_data,
     lines_view |-> self.lines_view,
     lines_normalized |-> None,
     text_processed |-> None]

\* TextData::without_text
without_text(self) ==
    [match_data |-> self.match_data,
     lines_view |-> <<0, 0>>,
     lines_normalized |-> None,
     text_processed |-> None]

\* TextData::lines_view
lines_view(self) == self.lines_view

\* &v[start..end] of a Vec of len elements panics unless start <= end <= len
slice_ok(len, start, end) == start <= end /\ end <= len

\* v[start..end], 0-based and end-exclusive
slice(v, start, end) == SubSeq(v, start + 1, end)

\* what with_view does: "ok", or the panic that ends it
with_view_outcome(self, start, end) ==
    IF ~is_some(self.lines_normalized) THEN "MissingText"
    ELSE IF ~slice_ok(Len(unwrap(self.lines_normalized)), start, end) THEN "SliceIndex"
    ELSE "ok"

\* TextData::with_view, where with_view_outcome is "ok"
with_view(self, start, end, ord) ==
    LET view == slice(unwrap(self.lines_normalized), start, end)
        processed == apply_aggressive(view, ord)
    IN  [match_data |-> from_str(processed, 2),
         lines_view |-> <<start, end>>,
         lines_normalized |-> self.lines_normalized,
         text_processed |-> Some(processed)]

\* what white_out does: "ok", or the panic that ends it
white_out_outcome(self) ==
    IF ~is_some(self.lines_normalized) THEN "MissingText" ELSE "ok"

\* a plausible slip: an inclusive upper end of the blanked range
white_out_inclusive(self, ord) ==
    LET lines == unwrap(self.lines_normalized)
        new_normalized ==
            [k \in 1..Len(lines) |->
                IF k - 1 >= self.lines_view[1] /\ k - 1 <= self.lines_view[2]
                THEN <<>> ELSE lines[k]]
        processed == apply_aggressive(new_normalized, ord)
    IN  [match_data |-> from_str(processed, 2),
         lines_view |-> <<0, Len(new_normalized)>>,
         lines_normalized |-> Some(new_normalized),
         text_processed |-> Some(processed)]

\* TextData::white_out, where white_out_outcome is "ok"; index i of the code
\* is k - 1 here
white_out(self, ord) ==
    LET lines == unwrap(self.lines_normalized)
        new_normalized ==
            [k \in 1..Len(lines) |->
                IF k - 1 >= self.lines_view[1] /\ k - 1 < self.lines_view[2]
                THEN <<>> ELSE lines[k]]
        processed == apply_aggressive(new_normalized, ord)
    IN  [match_data |-> from_str(processed, 2),
         lines_view |-> <<0, Len(new_normalized)>>,
         lines_normalized |-> Some(new_normalized),
         text_processed |-> Some(processed)]

\* TextData::match_score
match_score(self, other) == dice(self.match_data, other.match_data)

RECURSIVE fold_highest(_, _, _, _)
\* (left..=right).map(|x| (x, score(x))).fold((0, 0.0), |acc, x| if x.1 >= acc.1 ..)
\* from index x on; score is the memoized score, a function of the index
fold_highest(score, x, right, acc) ==
    IF x > right THEN acc
    ELSE fold_highest(score, x + 1, right,
                      IF FGe(score[x], acc[2]) THEN <<x, score[x]>> ELSE acc)

RECURSIVE search(_, _, _)
\* fn search inside TextData::search_optimize
search(score, left, right) ==
    IF right - left <= 3 THEN fold_highest(score, left, right, <<0, Zero>>)
    ELSE LET low == (left * 2 + right) \div 3
             high == (left + right * 2) \div 3
         IN  IF FGt(score[low], score[high])
             THEN search(score, left, high - 1)
             ELSE search(score, low + 1, right)

\* the first search_optimize of optimize_bounds: the end of the view, with the
\* start kept; <<index, score>>
optimal_end(self, other, ord) ==
    LET view == self.lines_view
        score == [end \in view[1]..view[2] |->
                     match_score(with_view(self, view[1], end, ord), other)]
    IN  search(score, view[1], view[2])

\* the second search_optimize: the start of the view, with the end new_end
optimal_start(end_optimized, other, ord) ==
    LET view == end_optimized.lines_view
        score == [start \in view[1]..view[2] |->
                     match_score(with_view(end_optimized, start, view[2], ord), other)]
    IN  search(score, view[1], view[2])

\* what optimize_bounds does: "ok", or the panic that ends it.  value(optimal.0)
\* of the first search is with_view(view.0, optimal.0)
optimize_bounds_outcome(self, other, ord) ==
    IF ~is_some(self.lines_normalized) THEN "MissingText"
    ELSE with_view_outcome(self, self.lines_view[1], optimal_end(self, other, ord)[1])

\* TextData::optimize_bounds, where optimize_bounds_outcome is "ok":
\* [value |-> the optimized TextData, score |-> its score]
optimize_bounds(self, other, ord) ==
    LET view == self.lines_view
        end_optimized == with_view(self, view[1], optimal_end(self, other, ord)[1], ord)
        new_end == end_optimized.lines_view[2]
        optimal == optimal_start(end_optimized, other, ord)
    IN  [value |-> with_view(end_optimized, optimal[1], new_end, ord),
         score |-> optimal[2]]

----------------------------------------------------------------------------
(* Spec: a caller holding one TextData and applying the operations of
   TextData to it, rebinding the result as the tests of license.rs do *)

\* the iteration orders the hash maps built while operating on self can have
TextOrders(self) ==
    IF is_some(self.lines_normalized)
    THEN HashOrders(unwrap(self.lines_normalized))
    ELSE {<<>>}

\* TextData::from(text).without_text(), as the tests build a license
stored(text) == without_text(textdata_new(text, CHOOSE r \in HashOrders(text) : TRUE))

\* the license side of a comparison
Others == {stored(x) : x \in OtherTexts}

\* the record of an operation: its name, how it ended, and what the claims
\* compare the result with (the receiver, its view, the scores)
Report(op, outcome, recv, view, score, base) ==
    [op |-> op, outcome |-> outcome, recv |-> recv, view |-> view,
     score |-> score, base |-> base]

\* the indices a caller may pass for a TextData: one past the end included
Indices(self) ==
    IF is_some(self.lines_normalized)
    THEN 0..(Len(unwrap(self.lines_normalized)) + 1)
    ELSE 0..1

\* the variables of the other specifications, at rest
DiceIdle == na = ngram_new(2) /\ nb = ngram_new(2) /\ dres = None
StoreIdle == licenses = <<>> /\ slast = None
TextIdle == t = None /\ last = None
AnalyzeIdle ==
    /\ iteration = <<>> /\ insertion = <<>>
    /\ query = None /\ par = None /\ single = None
ScanIdle ==
    /\ strategy = None /\ input = None /\ pc = "idle"
    /\ frame = None /\ result = None /\ calls = <<>>
CallIdle == arg = None /\ ret = None

Init ==
    /\ \E text \in Texts : \E ord \in HashOrders(text) : t = textdata_new(text, ord)
    /\ last = Report("new", "ok", None, <<0, 0>>, Zero, Zero)
    /\ DiceIdle /\ StoreIdle /\ AnalyzeIdle /\ ScanIdle /\ CallIdle

\* let t = t.with_view(start, end)
WithView ==
    /\ \E start \in Indices(t), end \in Indices(t), ord \in TextOrders(t) :
          LET outcome == with_view_outcome(t, start, end) IN
          /\ t' = IF outcome = "ok" THEN with_view(t, start, end, ord) ELSE t
          /\ last' = Report("with_view", outcome, None, <<0, 0>>, Zero, Zero)
    /\ UNCHANGED <<na, nb, dres, licenses, slast, avars, svars, xvars>>

\* let t = t.white_out()
WhiteOut ==
    /\ \E ord \in TextOrders(t) :
          LET outcome == white_out_outcome(t) IN
          /\ t' = IF outcome = "ok" THEN white_out(t, ord) ELSE t
          /\ last' = Report("white_out", outcome, Some(t), <<0, 0>>, Zero, Zero)
    /\ UNCHANGED <<na, nb, dres, licenses, slast, avars, svars, xvars>>

\* let t = t.without_text()
WithoutText ==
    /\ t' = without_text(t)
    /\ last' = Report("without_text", "ok", Some(t), <<0, 0>>, Zero, Zero)
    /\ UNCHANGED <<na, nb, dres, licenses, slast, avars, svars, xvars>>

\* let (t, score) = t.optimize_bounds(&other)
OptimizeBounds ==
    /\ \E other \in Others, ord \in TextOrders(t) :
          LET outcome == optimize_bounds_outcome(t, other, ord) IN
          IF outcome = "ok"
          THEN LET r == optimize_bounds(t, other, ord) IN
               /\ t' = r.value
               /\ last' = Report("optimize_bounds", outcome, None, t.lines_view,
                                 r.score, match_score(t, other))
          ELSE /\ t' = t
               /\ last' = Report("optimize_bounds", outcome, None, t.lines_view,
                                 Zero, Zero)
    /\ UNCHANGED <<na, nb, dres, licenses, slast, avars, svars, xvars>>

Next == WithView \/ WhiteOut \/ WithoutText \/ OptimizeBounds

Spec == Init /\ [][Next]_vars

----------------------------------------------------------------------------
(* Claims about TextData, checked under Spec *)

OptimizeReturned == last.op = "optimize_bounds" /\ last.outcome = "ok"

\* C1: the view (a', b') of the value optimize_bounds returns lies inside the
\* view (a, b) the receiver had: a <= a' <= b' <= b.
C1_OptimizeNeverGrowsView ==
    OptimizeReturned =>
        /\ last.view[1] <= t.lines_view[1]
        /\ t.lines_view[1] <= t.lines_view[2]
        /\ t.lines_view[2] <= last.view[2]

\* C2: the score optimize_bounds returns is at least the match_score of the
\* receiver's own view (a receiver whose own score is NaN has no score to
\* fall below and is left out).
C2_OptimizeNeverWorsensScore ==
    (OptimizeReturned /\ ~IsNaN(last.base)) => FGe(last.score, last.base)

\* C6: with_view on the TextData's own lines_view gives back the same
\* match_data, text_processed and view, whichever way the call runs.
C6_IdentityViewIsIdempotent ==
    is_some(t.lines_normalized) =>
        \A ord \in TextOrders(t) :
            LET v == with_view(t, lines_view(t)[1], lines_view(t)[2], ord) IN
            /\ v.match_data = t.match_data
            /\ v.text_processed = t.text_processed
            /\ v.lines_view = t.lines_view

\* C7: white_out returns a TextData with as many lines as the receiver, the
\* empty line at every index of the receiver's view, the receiver's line at
\* every other index, and the full range as its view.  (The receiver is
\* borrowed immutably: last.recv is the receiver as it is after the call.)
C7_WhiteOutBlanksExactlyTheView ==
    (last.op = "white_out" /\ last.outcome = "ok") =>
        LET self == unwrap(last.recv)
            old == unwrap(self.lines_normalized)
            new == unwrap(t.lines_normalized)
        IN  /\ Len(new) = Len(old)
            /\ \A i \in 0..(Len(old) - 1) :
                  new[i + 1] = IF self.lines_view[1] <= i /\ i < self.lines_view[2]
                               THEN <<>> ELSE old[i + 1]
            /\ t.lines_view = <<0, Len(old)>>

\* C7 witness: a narrowed view in the middle of a text was whited out and
\* lines on both sides of it survived
C7_Witness ==
    /\ last.op = "white_out" /\ last.outcome = "ok"
    /\ LET self == unwrap(last.recv) IN
       /\ 0 < self.lines_view[1]
       /\ self.lines_view[1] < self.lines_view[2]
       /\ self.lines_view[2] < Len(unwrap(self.lines_normalized))
       /\ \A k \in 1..Len(unwrap(self.lines_normalized)) :
             unwrap(self.lines_normalized)[k] # <<>>

\* C8: on a TextData without text, with_view, white_out and optimize_bounds
\* end in the MissingText panic and hand no TextData back (the caller keeps
\* what it had); without_text keeps match_data, drops both texts and sets the
\* view to (0, 0).
C8_MissingText ==
    [][ /\ (/\ last'.op \in {"with_view", "white_out", "optimize_bounds"}
            /\ ~is_some(t.lines_normalized))
           => (last'.outcome = "MissingText" /\ t' = t)
        /\ (/\ last'.op \in {"with_view", "white_out", "optimize_bounds"}
            /\ is_some(t.lines_normalized))
           => last'.outcome # "MissingText"
        /\ last'.op = "without_text"
           => /\ t'.match_data = t.match_data
              /\ t'.lines_view = <<0, 0>>
              /\ t'.lines_normalized = None
              /\ t'.text_processed = None ]_vars

\* C8 witness: optimize_bounds was called on a TextData stripped of its text,
\* whose bigram set is not empty
C8_Witness ==
    /\ last.op = "optimize_bounds" /\ last.outcome = "MissingText"
    /\ t.lines_normalized = None /\ t.lines_view = <<0, 0>>
    /\ t.match_data.size > 0

----------------------------------------------------------------------------
(* SpecDice: NgramSet::dice on every pair of sets built from short texts *)

DiceWords == {"a", "b"}

\* the arities the sets are built with (the engine itself uses 2)
Arities == {1, 2}

\* processed texts of at most MaxWords words
DiceTexts == UNION {[1..k -> DiceWords] : k \in 0..MaxWords}

InitDice ==
    /\ \E s \in DiceTexts, n \in Arities : na = from_str(s, n)
    /\ \E s \in DiceTexts, n \in Arities : nb = from_str(s, n)
    /\ dres = None
    /\ TextIdle /\ StoreIdle /\ AnalyzeIdle /\ ScanIdle /\ CallIdle

\* a.dice(&b), b.dice(&a) and a.dice(&a)
Dice ==
    /\ dres = None
    /\ dres' = Some([ab |-> dice(na, nb), ba |-> dice(nb, na), aa |-> dice(na, na)])
    /\ UNCHANGED <<t, last, na, nb, licenses, slast, avars, svars, xvars>>

NextDice == Dice

SpecDice == InitDice /\ [][NextDice]_vars

\* C3: for sets of the same arity dice(A, B) = dice(B, A) and the value lies
\* in [0, 1].
C3_DiceSymmetricInUnitRange ==
    (is_some(dres) /\ na.n = nb.n) =>
        LET d == unwrap(dres) IN
        /\ FEq(d.ab, d.ba)
        /\ FGe(d.ab, Zero) /\ FGe(One, d.ab)

\* C4: dice is exactly 0, and no NaN, when at least one of the two sets is
\* empty, both being empty included.
C4_DiceZeroOnEmpty ==
    (is_some(dres) /\ (na.size = 0 \/ nb.size = 0)) =>
        LET d == unwrap(dres) IN FEq(d.ab, Zero) /\ FEq(d.ba, Zero)

----------------------------------------------------------------------------
(* Store (src/src/store/base.rs) *)

\* LicenseEntry::new
LicenseEntry_new(original) ==
    [original |-> original, aliases |-> <<>>, alternates |-> <<>>, headers |-> <<>>]

\* HashMap::insert
map_insert(m, k, v) == [x \in DOMAIN m \cup {k} |-> IF x = k THEN v ELSE m[x]]

\* Store::len
store_len(lic) == Cardinality(DOMAIN lic)

\* a plausible slip: an existing entry keeps its variants and aliases
add_license_keeps_variants(lic, name, data) ==
    IF name \in DOMAIN lic
    THEN [lic EXCEPT ![name].original = data]
    ELSE map_insert(lic, name, LicenseEntry_new(data))

\* Store::add_license: the licenses after the call
add_license(lic, name, data) == map_insert(lic, name, LicenseEntry_new(data))

\* how add_variant ends: Ok ("ok") or the error it returns
add_variant_outcome(lic, name, variant) ==
    IF name \notin DOMAIN lic THEN "UnknownLicense"
    ELSE IF variant \notin {"Alternate", "Header"} THEN "InvalidVariant"
    ELSE "ok"

\* a plausible slip: the new variant goes to the front of its list
add_variant_prepends(lic, name, variant, data) ==
    IF name \notin DOMAIN lic THEN lic
    ELSE IF variant = "Alternate"
         THEN [lic EXCEPT ![name].alternates = <<data>> \o @]
    ELSE IF variant = "Header"
         THEN [lic EXCEPT ![name].headers = <<data>> \o @]
    ELSE lic

\* Store::add_variant: the licenses after the call
add_variant(lic, name, variant, data) ==
    IF name \notin DOMAIN lic THEN lic
    ELSE IF variant = "Alternate"
         THEN [lic EXCEPT ![name].alternates = Append(@, data)]
    ELSE IF variant = "Header"
         THEN [lic EXCEPT ![name].headers = Append(@, data)]
    ELSE lic

\* how set_aliases ends
set_aliases_outcome(lic, name) ==
    IF name \notin DOMAIN lic THEN "UnknownLicense" ELSE "ok"

\* Store::set_aliases: the licenses after the call
set_aliases(lic, name, aliases) ==
    IF name \notin DOMAIN lic THEN lic ELSE [lic EXCEPT ![name].aliases = aliases]

----------------------------------------------------------------------------
(* SpecStore: a caller building a Store *)

Names == {"MIT", "ISC"}
LicenseTypes == {"Original", "Header", "Alternate"}
AliasLists == {<<>>, <<"Expat">>}

\* the TextData values handed to the Store
StoreData ==
    {stored(x) : x \in { << <<"a", "b">> >>,
                         << <<"a", "b">>, <<"c", "d">>, <<"c", "d">> >> }}

\* how many headers and alternates the whole Store holds
RECURSIVE VariantCount(_, _)
VariantCount(lic, names) ==
    IF names = {} THEN 0
    ELSE LET n == CHOOSE x \in names : TRUE IN
         Len(lic[n].headers) + Len(lic[n].alternates) + VariantCount(lic, names \ {n})

InitStore ==
    /\ licenses = <<>>      \* Store::new
    /\ slast = None
    /\ TextIdle /\ DiceIdle /\ AnalyzeIdle /\ ScanIdle /\ CallIdle

\* store.add_license(name, data)
AddLicense ==
    /\ \E name \in Names, data \in StoreData :
          /\ licenses' = add_license(licenses, name, data)
          /\ slast' = Some([op |-> "add_license", name |-> name, kind |-> "Original",
                            data |-> data, outcome |-> "ok",
                            existed |-> name \in DOMAIN licenses,
                            dropped |-> IF name \in DOMAIN licenses
                                        THEN Len(licenses[name].headers)
                                             + Len(licenses[name].alternates)
                                             + Len(licenses[name].aliases)
                                        ELSE 0])
    /\ UNCHANGED <<t, last, na, nb, dres, avars, svars, xvars>>

\* store.add_variant(name, variant, data)
AddVariant ==
    /\ \E name \in Names, variant \in LicenseTypes, data \in StoreData :
          LET outcome == add_variant_outcome(licenses, name, variant) IN
          /\ outcome = "ok" => VariantCount(licenses, DOMAIN licenses) < MaxVariants
          /\ licenses' = add_variant(licenses, name, variant, data)
          /\ slast' = Some([op |-> "add_variant", name |-> name, kind |-> variant,
                            data |-> data, outcome |-> outcome,
                            existed |-> name \in DOMAIN licenses, dropped |-> 0])
    /\ UNCHANGED <<t, last, na, nb, dres, avars, svars, xvars>>

\* store.set_aliases(name, aliases)
SetAliases ==
    /\ \E name \in Names, aliases \in AliasLists :
          /\ licenses' = set_aliases(licenses, name, aliases)
          /\ slast' = Some([op |-> "set_aliases", name |-> name, kind |-> "Original",
                            data |-> aliases,
                            outcome |-> set_aliases_outcome(licenses, name),
                            existed |-> name \in DOMAIN licenses, dropped |-> 0])
    /\ UNCHANGED <<t, last, na, nb, dres, avars, svars, xvars>>

NextStore == AddLicense \/ AddVariant \/ SetAliases

SpecStore == InitStore /\ [][NextStore]_vars

\* every entry but `name` is in after as it was in before
OthersUntouched(before, after, name) ==
    \A m \in DOMAIN before \ {name} : m \in DOMAIN after /\ after[m] = before[m]

\* C9: add_license(name, data) leaves under `name` an entry whose original is
\* data and whose headers, alternates and aliases are empty; len() stays when
\* the name was held and grows by 1 when it was not; no other entry changes.
C9_AddLicenseReplacesWholeEntry ==
    [][ (is_some(slast') /\ unwrap(slast').op = "add_license") =>
          LET c == unwrap(slast') IN
          /\ DOMAIN licenses' = DOMAIN licenses \cup {c.name}
          /\ licenses'[c.name].original = c.data
          /\ licenses'[c.name].headers = <<>>
          /\ licenses'[c.name].alternates = <<>>
          /\ licenses'[c.name].aliases = <<>>
          /\ store_len(licenses') =
                store_len(licenses) + (IF c.name \in DOMAIN licenses THEN 0 ELSE 1)
          /\ OthersUntouched(licenses, licenses', c.name) ]_vars

\* C9 witness: an entry that had variants or aliases was replaced while the
\* Store held another entry with a header of its own
C9_Witness ==
    /\ is_some(slast)
    /\ LET c == unwrap(slast) IN
       /\ c.op = "add_license" /\ c.existed /\ c.dropped > 0
       /\ \E m \in DOMAIN licenses \ {c.name} : licenses[m].headers # <<>>

\* what C10 says of a successful add_variant: data is appended at the end of
\* the list the kind selects, and nothing else changes
VariantAppended(before, after, c) ==
    /\ DOMAIN after = DOMAIN before
    /\ OthersUntouched(before, after, c.name)
    /\ after[c.name].original = before[c.name].original
    /\ after[c.name].aliases = before[c.name].aliases
    /\ after[c.name].headers =
          IF c.kind = "Header" THEN Append(before[c.name].headers, c.data)
          ELSE before[c.name].headers
    /\ after[c.name].alternates =
          IF c.kind = "Alternate" THEN Append(before[c.name].alternates, c.data)
          ELSE before[c.name].alternates

\* C10 as stated: UnknownLicense when name is no key, InvalidVariant when
\* kind = Original, the Store unchanged in both cases, an append otherwise.
C10_AsStated ==
    [][ (is_some(slast') /\ unwrap(slast').op = "add_variant") =>
          LET c == unwrap(slast') IN
          /\ c.name \notin DOMAIN licenses => c.outcome = "UnknownLicense"
          /\ c.kind = "Original" => c.outcome = "InvalidVariant"
          /\ c.outcome # "ok" => licenses' = licenses
          /\ c.outcome = "ok" => VariantAppended(licenses, licenses', c) ]_vars

\* C10 amended: UnknownLicense when name is no key (whatever the kind),
\* InvalidVariant when name is a key and kind = Original, the Store unchanged
\* in both cases; otherwise Ok and an append at the end of the selected list.
C10_AddVariant ==
    [][ (is_some(slast') /\ unwrap(slast').op = "add_variant") =>
          LET c == unwrap(slast') IN
          /\ c.name \notin DOMAIN licenses => c.outcome = "UnknownLicense"
          /\ (c.name \in DOMAIN licenses /\ c.kind = "Original")
                => c.outcome = "InvalidVariant"
          /\ (c.name \in DOMAIN licenses /\ c.kind # "Original") => c.outcome = "ok"
          /\ c.outcome # "ok" => licenses' = licenses
          /\ c.outcome = "ok" => VariantAppended(licenses, licenses', c) ]_vars

\* C10 witness: a second header, different from the first, was appended
C10_Witness ==
    /\ is_some(slast)
    /\ LET c == unwrap(slast) IN
       /\ c.op = "add_variant" /\ c.outcome = "ok" /\ c.kind = "Header"
       /\ Len(licenses[c.name].headers) = 2
       /\ licenses[c.name].headers[2] = c.data
       /\ licenses[c.name].headers[1] # c.data

----------------------------------------------------------------------------
(* Analyzer (src/src/store/analyze.rs) *)

\* PartialMatch
PartialMatch(name, score, license_type, data) ==
    [name |-> name, score |-> score, license_type |-> license_type, data |-> data]

\* the closure both folds run for one (name, data) of licenses: the original,
\* then the alternates, then the headers are pushed on acc
fold_entry(acc, name, data, text) ==
    acc \o << PartialMatch(name, match_score(data.original, text),
                           "Original", data.original) >>
        \o [i \in 1..Len(data.alternates) |->
               PartialMatch(name, match_score(data.alternates[i], text),
                            "Alternate", data.alternates[i])]
        \o [i \in 1..Len(data.headers) |->
               PartialMatch(name, match_score(data.headers[i], text),
                            "Header", data.headers[i])]

RECURSIVE fold_licenses(_, _, _, _)
\* licenses.iter().fold(acc, closure), the keys coming in the order iter
fold_licenses(lic, iter, text, acc) ==
    IF iter = <<>> THEN acc
    ELSE fold_licenses(lic, Tail(iter), text,
                       fold_entry(acc, Head(iter), lic[Head(iter)], text))

\* licenses.par_iter().fold(Vec::new, closure).reduce(Vec::new, extend): the
\* keys are split after the k-th into two jobs, each folds its part into a
\* Vec of its own, and reduce extends the left Vec by the right one
par_fold_reduce(lic, iter, text, k) ==
    fold_licenses(lic, SubSeq(iter, 1, k), text, <<>>)
        \o fold_licenses(lic, SubSeq(iter, k + 1, Len(iter)), text, <<>>)

\* PartialOrd for PartialMatch: f32::partial_cmp of the scores
partial_cmp(self, other) ==
    IF IsNaN(self.score) \/ IsNaN(other.score) THEN None
    ELSE IF FLt(self.score, other.score) THEN Some("Less")
    ELSE IF FGt(self.score, other.score) THEN Some("Greater")
    ELSE Some("Equal")

\* the permutations of 1..n
Orderings(n) ==
    {f \in [1..n -> 1..n] : \A i, j \in 1..n : i # j => f[i] # f[j]}

\* how res.sort_unstable_by(|a, b| b.partial_cmp(a).unwrap()) ends: a sort of
\* two or more elements compares every element with another at least once,
\* and unwrap panics on the None a NaN score gives
sort_outcome(res) ==
    IF Len(res) >= 2 /\ \E i \in 1..Len(res) : IsNaN(res[i].score)
    THEN "UnwrapNone" ELSE "ok"

\* what the sort can leave in res, where sort_outcome is "ok": any order of the
\* elements in which no element is Greater, by |a, b| b.partial_cmp(a), than
\* a later one; the order of Equal elements is not specified
sort_unstable_by(res) ==
    {[i \in 1..Len(res) |-> res[f[i]]] :
        f \in {g \in Orderings(Len(res)) :
                 \A i, j \in 1..Len(res) :
                    i < j => partial_cmp(res[g[j]], res[g[i]]) # Some("Greater")}}

\* how analyze ends once res is collected: &res[0] of an empty Vec panics
analyze_outcome(res) ==
    IF res = <<>> THEN "IndexOutOfBounds" ELSE sort_outcome(res)

\* Match, built from m = &res[0]
Match(lic, m) ==
    [score |-> m.score, name |-> m.name, license_type |-> m.license_type,
     aliases |-> lic[m.name].aliases, data |-> m.data]

\* the rest of analyze after res is collected: what the call can return
analyze_sorted(lic, res) ==
    IF analyze_outcome(res) # "ok"
    THEN {[outcome |-> analyze_outcome(res), match |-> None]}
    ELSE {[outcome |-> "ok", match |-> Some(Match(lic, sorted[1]))] :
             sorted \in sort_unstable_by(res)}

\* Store::analyze_single_thread
analyze_single_thread(lic, iter, text) ==
    analyze_sorted(lic, fold_licenses(lic, iter, text, <<>>))

\* Store::analyze_parallel
analyze_parallel(lic, iter, text, k) ==
    analyze_sorted(lic, par_fold_reduce(lic, iter, text, k))

\* Store::analyze off wasm32, over the ways the keys can be split
analyze(lic, iter, text) ==
    UNION {analyze_parallel(lic, iter, text, k) : k \in 0..Len(iter)}

----------------------------------------------------------------------------
(* SpecAnalyze: a Store built by a few calls, and one text analyzed by both
   implementations of analyze *)

\* how many calls build the Store
MaxInsertions == 2

\* the license texts: two bigrams-bearing ones and a one-word text, which has
\* no bigram
AnalyzeData ==
    {stored(x) : x \in { << <<"a", "b">> >>,
                         << <<"a", "b">>, <<"c", "d">>, <<"c", "d">> >>,
                         << <<"a">> >> }}

\* the texts analyzed
AnalyzeTexts ==
    { << <<>> >>,
      << <<"a", "b">> >>,
      << <<"c", "d">>, <<"c", "d">> >>,
      << <<"a", "b">>, <<"c", "d">> >> }

\* a call that adds to the Store
StoreCalls == [name : Names, kind : LicenseTypes, data : AnalyzeData]

\* the Store after one more call
apply_call(lic, c) ==
    IF c.kind = "Original" THEN add_license(lic, c.name, c.data)
    ELSE add_variant(lic, c.name, c.kind, c.data)

RECURSIVE build(_)
\* the Store::new() the calls cs were made on, in order
build(cs) ==
    IF cs = <<>> THEN <<>>
    ELSE apply_call(build(SubSeq(cs, 1, Len(cs) - 1)), cs[Len(cs)])

RECURSIVE CallSeqs(_)
\* the sequences of at most n calls that all return Ok
CallSeqs(n) ==
    IF n = 0 THEN {<<>>}
    ELSE LET shorter == CallSeqs(n - 1) IN
         shorter \cup
         UNION {{Append(cs, c) :
                    c \in {x \in StoreCalls :
                             \/ x.kind = "Original"
                             \/ add_variant_outcome(build(cs), x.name, x.kind) = "ok"}} :
                cs \in {x \in shorter : Len(x) = n - 1}}

\* the orders a HashMap with these keys can iterate them in
IterOrders(keys) ==
    {[i \in 1..Cardinality(keys) |-> f[i]] :
        f \in {g \in [1..Cardinality(keys) -> keys] :
                 \A i, j \in 1..Cardinality(keys) : i # j => g[i] # g[j]}}

InitAnalyze ==
    /\ insertion \in CallSeqs(MaxInsertions)
    /\ licenses = build(insertion)
    /\ iteration \in IterOrders(DOMAIN licenses)
    /\ \E text \in AnalyzeTexts : \E ord \in HashOrders(text) :
          query = textdata_new(text, ord)
    /\ par = None /\ single = None
    /\ slast = None
    /\ TextIdle /\ DiceIdle /\ ScanIdle /\ CallIdle

\* store.analyze_parallel(&query)
AnalyzeParallel ==
    /\ par = None
    /\ \E k \in 0..Len(iteration) :
          \E r \in analyze_parallel(licenses, iteration, query, k) : par' = Some(r)
    /\ UNCHANGED <<t, last, na, nb, dres, licenses, slast, svars, xvars>>
    /\ UNCHANGED <<iteration, insertion, query, single>>

\* store.analyze_single_thread(&query)
AnalyzeSingleThread ==
    /\ single = None
    /\ \E r \in analyze_single_thread(licenses, iteration, query) : single' = Some(r)
    /\ UNCHANGED <<t, last, na, nb, dres, licenses, slast, svars, xvars>>
    /\ UNCHANGED <<iteration, insertion, query, par>>

NextAnalyze == AnalyzeParallel \/ AnalyzeSingleThread

SpecAnalyze == InitAnalyze /\ [][NextAnalyze]_vars

----------------------------------------------------------------------------
(* Claims about analyze, checked under SpecAnalyze *)

\* the calls of insertion whose text the Store still holds: add_license of a
\* name drops everything earlier calls put under that name
Surviving ==
    {i \in 1..Len(insertion) :
        \A j \in (i + 1)..Len(insertion) :
           ~(insertion[j].kind = "Original" /\ insertion[j].name = insertion[i].name)}

\* the score of the text the i-th call added, against query
CallScore(i) == match_score(insertion[i].data, query)

\* C11: analyze returns the candidate of the highest dice score against the
\* text, with its name and license_type, and of several candidates sharing
\* the highest score it returns the one inserted first
C11_AnalyzeReturnsFirstMaximum ==
    (is_some(par) /\ unwrap(par).outcome = "ok") =>
        LET m == unwrap(unwrap(par).match)
            top == {i \in Surviving :
                      \A j \in Surviving : FGe(CallScore(i), CallScore(j))}
        IN  \E i \in top :
               /\ \A j \in top : i <= j
               /\ m.score = CallScore(i)
               /\ m.name = insertion[i].name
               /\ m.license_type = insertion[i].kind
               /\ m.data = insertion[i].data

\* C12: analyze_parallel and analyze_single_thread return the same
\* (score, name, license_type) for the same Store and text, however the
\* parallel fold is split and whatever order the sort leaves equal scores in
C12_ParallelAgreesWithSingleThread ==
    (is_some(par) /\ is_some(single)) =>
        /\ unwrap(par).outcome = unwrap(single).outcome
        /\ unwrap(par).outcome = "ok" =>
              LET p == unwrap(unwrap(par).match)
                  s == unwrap(unwrap(single).match)
              IN  /\ p.score = s.score
                  /\ p.name = s.name
                  /\ p.license_type = s.license_type

\* C13: analyze returns the NoMatch error exactly when the Store is empty; on
\* a Store that is not empty it returns a Match for every text, of score 0
\* for the empty text
C13_NoMatchExactlyOnEmptyStore ==
    is_some(par) =>
        LET r == unwrap(par) IN
        /\ (r.outcome = "NoMatch") <=> (DOMAIN licenses = {})
        /\ DOMAIN licenses # {} => r.outcome = "ok"
        /\ (r.outcome = "ok" /\ query.text_processed = Some(<<>>)) =>
              unwrap(r.match).score = Zero

----------------------------------------------------------------------------
(* ScanStrategy (src/src/strategy.rs) *)

\* ScanStrategy::new; the store is the variable licenses
ScanStrategy_new ==
    [mode |-> "Elimination",
     confidence_threshold |-> <<9, 10>>,
     shallow_limit |-> <<99, 100>>,
     optimize |-> FALSE,
     max_passes |-> 10,
     step_size |-> 5]

\* the builder methods of ScanStrategy
mode(self, m) == [self EXCEPT !.mode = m]
confidence_threshold(self, x) == [self EXCEPT !.confidence_threshold = x]
shallow_limit(self, x) == [self EXCEPT !.shallow_limit = x]
optimize(self, b) == [self EXCEPT !.optimize = b]
max_passes(self, k) == [self EXCEPT !.max_passes = k]
step_size(self, k) == [self EXCEPT !.step_size = k]

\* IdentifiedLicense
IdentifiedLicense(name, kind) == [name |-> name, kind |-> kind]

\* ContainedResult
ContainedResult(score, license, line_range) ==
    [score |-> score, license |-> license, line_range |-> line_range]

\* ScanResult
ScanResult(score, license, containing) ==
    [score |-> score, license |-> license, containing |-> containing]

\* a plausible slip: a score equal to the threshold is reported too
elimination_locals_inclusive(self, text, analysis) ==
    [analysis |-> analysis,
     score |-> analysis.score,
     license |-> IF FGe(analysis.score, self.confidence_threshold)
                 THEN Some(IdentifiedLicense(analysis.name, analysis.license_type))
                 ELSE None,
     containing |-> <<>>,
     current_text |-> text,
     n |-> 0]

\* scan_elimination before its loop: the local variables once the first
\* analysis is in
elimination_locals(self, text, analysis) ==
    [analysis |-> analysis,
     score |-> analysis.score,
     license |-> IF FGt(analysis.score, self.confidence_threshold)
                 THEN Some(IdentifiedLicense(analysis.name, analysis.license_type))
                 ELSE None,
     containing |-> <<>>,
     current_text |-> text,
     n |-> 0]

\* a plausible slip: the shallow limit compared the wrong way round
above_shallow_limit_reversed(self, analysis) ==
    /\ FGt(analysis.score, self.confidence_threshold)
    /\ FLt(analysis.score, self.shallow_limit)

\* scan_elimination: the return inside `if analysis.score > confidence_threshold`
above_shallow_limit(self, analysis) ==
    /\ FGt(analysis.score, self.confidence_threshold)
    /\ FGt(analysis.score, self.shallow_limit)

\* a plausible slip: the range of the loop one pass too long
pass_left_inclusive(self, n) == self.optimize /\ n <= self.max_passes

\* scan_elimination: whether the loop has a pass left after n passes
pass_left(self, n) == self.optimize /\ n < self.max_passes

\* a plausible slip: the optimized score held against the shallow limit
below_threshold_shallow(self, optimized_score) ==
    FLt(optimized_score, self.shallow_limit)

\* `optimized_score < self.confidence_threshold`, the test after optimize_bounds
\* in scan_elimination and in topdown_find_contained_license
below_threshold(self, optimized_score) ==
    FLt(optimized_score, self.confidence_threshold)

\* scan_elimination: the ScanResult it returns from its local variables
elimination_result(f) == ScanResult(f.score, f.license, f.containing)

\* scan_topdown before its loop, and the local variables of
\* topdown_find_contained_license
topdown_locals(text) ==
    [text_end |-> lines_view(text)[2],
     containing |-> <<>>,
     current_start |-> 0,
     starting_at |-> 0,
     start |-> 0,
     end |-> 0,
     hit_threshold |-> FALSE,
     found |-> <<0, 0, None>>]

\* a plausible slip: the next search starts where the range starts
next_start_on_start(contained) == contained.line_range[1]

\* a plausible slip: the next search starts on the end of the range, which
\* is exclusive
next_start_on_end(contained) == contained.line_range[2]

\* scan_topdown: current_start = contained.line_range.1 + 1
next_start(contained) == contained.line_range[2] + 1

\* scan_topdown: the ScanResult it returns
topdown_result(f) == ScanResult(Zero, None, f.containing)

\* topdown_find_contained_license: the body of the inner loop after the
\* analysis of the window: [hit_threshold, found, break]
window_step(self, f, analysis) ==
    LET hit == \/ f.hit_threshold
               \/ FGe(analysis.score, self.confidence_threshold)
        exiting == hit /\ FLt(analysis.score, self.confidence_threshold)
    IN  [hit_threshold |-> hit,
         found |-> IF hit /\ ~exiting THEN <<f.start, f.end, Some(analysis)>>
                   ELSE f.found,
         break |-> exiting]

\* the two step_by loops: the window after (start, end), None once the
\* loops are over
next_window(self, f) ==
    IF f.end + self.step_size <= f.text_end
    THEN Some(<<f.start, f.end + self.step_size>>)
    ELSE IF f.start + self.step_size < f.text_end
    THEN Some(<<f.start + self.step_size, f.start + self.step_size>>)
    ELSE None

----------------------------------------------------------------------------
(* SpecScan: one scan of one text by one configured ScanStrategy; a step is
   the part of the scan up to its loop, or one pass of a loop *)

\* the license texts of the scanned Stores; the last has one word, no bigram
ScanData ==
    [abab |-> stored(<< <<"a", "b">>, <<"a", "b">> >>),
     cdcd |-> stored(<< <<"c", "d">>, <<"c", "d">> >>),
     a |-> stored(<< <<"a">> >>)]

\* the calls that build the scanned Stores
ScanStores ==
    { <<>>,
      << [name |-> "MIT", kind |-> "Original", data |-> ScanData.abab],
         [name |-> "ISC", kind |-> "Original", data |-> ScanData.cdcd] >>,
      << [name |-> "MIT", kind |-> "Original", data |-> ScanData.abab],
         [name |-> "MIT", kind |-> "Alternate", data |-> ScanData.abab] >>,
      << [name |-> "MIT", kind |-> "Original", data |-> ScanData.a] >>,
      << [name |-> "MIT", kind |-> "Original", data |-> ScanData.cdcd],
         [name |-> "MIT", kind |-> "Header", data |-> ScanData.a] >> }

\* the scanned documents
ScanTexts ==
    { << <<>> >>,
      << <<"a", "b">>, <<"a", "b">> >>,
      << <<"a", "b">>, <<"c", "d">> >>,
      << <<"c", "d">>, <<"a", "b">>, <<"a", "b">> >>,
      << <<"a", "b">>, <<>>, <<"c", "d">>, <<"c", "d">> >>,
      << <<"a", "b">>, <<"a", "b">>, <<"c", "d">>, <<"c", "d">> >> }

\* the values the strategies are configured with
Thresholds == {Zero, <<1, 2>>, <<9, 10>>}
ShallowLimits == {Zero, <<99, 100>>}
PassCaps == {1, 3}
StepSizes == {1, 2, 5}

\* ScanStrategy::new(&store) with the builder methods applied
Strategies ==
    {shallow_limit(confidence_threshold(ScanStrategy_new, c), s) :
        c \in Thresholds, s \in ShallowLimits}
    \cup
    {max_passes(optimize(shallow_limit(confidence_threshold(
         ScanStrategy_new, c), s), TRUE), p) :
        c \in Thresholds, s \in ShallowLimits, p \in PassCaps}
    \cup
    {step_size(confidence_threshold(mode(ScanStrategy_new, "TopDown"), c), k) :
        c \in Thresholds, k \in StepSizes}

\* an entry of calls: the function called, the view of the TextData it was
\* called on, how it ended and the score it returned
Call(fn, view, outcome, score) ==
    [fn |-> fn, view |-> view, outcome |-> outcome, score |-> score]

\* the entry of an analyze call that returned r
AnalyzeCall(text, r) ==
    Call("analyze", lines_view(text), r.outcome,
         IF r.outcome = "ok" THEN unwrap(r.match).score ELSE Zero)

\* a panic ends the scan
Panicked(outcome) == [outcome |-> outcome, value |-> None]
\* the scan returns Ok(value)
Returned(value) == [outcome |-> "ok", value |-> Some(value)]

InitScan ==
    /\ insertion \in ScanStores
    /\ licenses = build(insertion)
    /\ iteration \in IterOrders(DOMAIN licenses)
    /\ strategy \in Strategies
    /\ \E text \in ScanTexts : \E ord \in HashOrders(text) :
          input = textdata_new(text, ord)
    /\ pc = "ready" /\ frame = None /\ result = None /\ calls = <<>>
    /\ query = None /\ par = None /\ single = None
    /\ slast = None
    /\ TextIdle /\ DiceIdle /\ CallIdle

\* strategy.scan(&input) in ScanMode::Elimination: scan_elimination up to its
\* loop
ScanElimination ==
    /\ pc = "ready" /\ strategy.mode = "Elimination"
    /\ \E r \in analyze(licenses, iteration, input) :
          /\ calls' = Append(calls, AnalyzeCall(input, r))
          /\ IF r.outcome # "ok"
             THEN /\ pc' = "panicked"
                  /\ result' = Some(Panicked(r.outcome))
                  /\ frame' = frame
             ELSE LET f == elimination_locals(strategy, input, unwrap(r.match)) IN
                  /\ frame' = Some(f)
                  /\ IF ~above_shallow_limit(strategy, unwrap(r.match))
                        /\ pass_left(strategy, 0)
                     THEN pc' = "pass" /\ result' = result
                     ELSE /\ pc' = "returned"
                          /\ result' = Some(Returned(elimination_result(f)))
    /\ UNCHANGED <<t, last, na, nb, dres, licenses, slast, avars, strategy, input, xvars>>

\* one pass of the loop of scan_elimination, and its return once no pass is
\* left
EliminationPass ==
    /\ pc = "pass"
    /\ \E f \in {unwrap(frame)} : \E ord \in TextOrders(f.current_text) :
       \E outcome \in {optimize_bounds_outcome(f.current_text, f.analysis.data, ord)} :
          IF outcome # "ok"
          THEN /\ calls' = Append(calls, Call("optimize_bounds",
                                               lines_view(f.current_text), outcome, Zero))
               /\ pc' = "panicked"
               /\ result' = Some(Panicked(outcome))
               /\ frame' = frame
          ELSE \E o \in {optimize_bounds(f.current_text, f.analysis.data, ord)} :
               \E optimized \in {Call("optimize_bounds", lines_view(f.current_text),
                                       outcome, o.score)} :
               IF below_threshold(strategy, o.score)
               THEN /\ calls' = Append(calls, optimized)
                    /\ pc' = "returned"
                    /\ result' = Some(Returned(elimination_result(f)))
                    /\ frame' = frame
               ELSE \E ord2 \in TextOrders(o.value) :
                    \E whited \in {white_out(o.value, ord2)} :
                    \E r \in analyze(licenses, iteration, whited) :
                       /\ calls' = calls \o <<optimized, AnalyzeCall(whited, r)>>
                       /\ IF r.outcome # "ok"
                          THEN /\ pc' = "panicked"
                               /\ result' = Some(Panicked(r.outcome))
                               /\ frame' = frame
                          ELSE \E g \in {[f EXCEPT
                                    !.containing =
                                        Append(@, ContainedResult(o.score,
                                            IdentifiedLicense(f.analysis.name,
                                                              f.analysis.license_type),
                                            lines_view(o.value))),
                                    !.current_text = whited,
                                    !.analysis = unwrap(r.match),
                                    !.n = @ + 1]} :
                               /\ frame' = Some(g)
                               /\ IF pass_left(strategy, g.n)
                                  THEN pc' = "pass" /\ result' = result
                                  ELSE /\ pc' = "returned"
                                       /\ result' = Some(Returned(elimination_result(g)))
    /\ UNCHANGED <<t, last, na, nb, dres, licenses, slast, avars, strategy, input, xvars>>

\* strategy.scan(&input) in ScanMode::TopDown: scan_topdown up to its loop
ScanTopDown ==
    /\ pc = "ready" /\ strategy.mode = "TopDown"
    /\ frame' = Some(topdown_locals(input))
    /\ pc' = "outer"
    /\ UNCHANGED <<result, calls>>
    /\ UNCHANGED <<t, last, na, nb, dres, licenses, slast, avars, strategy, input, xvars>>

\* the head of the while loop of scan_topdown: the call of
\* topdown_find_contained_license, or the return
TopDownLoop ==
    /\ pc = "outer"
    /\ LET f == unwrap(frame) IN
       IF f.current_start < f.text_end
       THEN /\ frame' = Some([f EXCEPT !.starting_at = f.current_start,
                                       !.start = f.current_start,
                                       !.end = f.current_start,
                                       !.hit_threshold = FALSE,
                                       !.found = <<0, 0, None>>])
            /\ calls' = Append(calls, Call("topdown_find_contained_license",
                                           <<f.current_start, f.text_end>>, "ok", Zero))
            /\ pc' = "window"
            /\ result' = result
       ELSE /\ pc' = "returned"
            /\ result' = Some(Returned(topdown_result(f)))
            /\ UNCHANGED <<frame, calls>>
    /\ UNCHANGED <<t, last, na, nb, dres, licenses, slast, avars, strategy, input, xvars>>

\* one pass of the inner loop of topdown_find_contained_license: the window
\* (start, end) is analyzed
TopDownWindow ==
    /\ pc = "window"
    /\ \E f \in {unwrap(frame)} :
       \E outcome \in {with_view_outcome(input, f.start, f.end)} :
       IF outcome # "ok"
       THEN /\ pc' = "panicked"
            /\ result' = Some(Panicked(outcome))
            /\ UNCHANGED <<frame, calls>>
       ELSE \E ord \in TextOrders(input) :
            \E view \in {with_view(input, f.start, f.end, ord)} :
            \E r \in analyze(licenses, iteration, view) :
               /\ calls' = Append(calls, AnalyzeCall(view, r))
               /\ IF r.outcome # "ok"
                  THEN /\ pc' = "panicked"
                       /\ result' = Some(Panicked(r.outcome))
                       /\ frame' = frame
                  ELSE \E s \in {window_step(strategy, f, unwrap(r.match))} :
                       \E w \in {next_window(strategy, f)} :
                          /\ result' = result
                          /\ IF s.break \/ ~is_some(w)
                             THEN /\ pc' = "optimize"
                                  /\ frame' = Some([f EXCEPT
                                         !.hit_threshold = s.hit_threshold,
                                         !.found = s.found])
                             ELSE /\ pc' = "window"
                                  /\ frame' = Some([f EXCEPT
                                         !.hit_threshold = s.hit_threshold,
                                         !.found = s.found,
                                         !.start = unwrap(w)[1],
                                         !.end = unwrap(w)[2]])
    /\ UNCHANGED <<t, last, na, nb, dres, licenses, slast, avars, strategy, input, xvars>>

\* the rest of topdown_find_contained_license after its loops, and what
\* scan_topdown does with the Option it returns
TopDownOptimize ==
    /\ pc = "optimize"
    /\ \E f \in {unwrap(frame)} :
       IF ~is_some(f.found[3])
       THEN /\ pc' = "returned"
            /\ result' = Some(Returned(topdown_result(f)))
            /\ UNCHANGED <<frame, calls>>
       ELSE \E matched \in {unwrap(f.found[3])} :
            \E outcome \in {with_view_outcome(input, f.found[1], f.found[2])} :
            IF outcome # "ok"
            THEN /\ pc' = "panicked"
                 /\ result' = Some(Panicked(outcome))
                 /\ UNCHANGED <<frame, calls>>
            ELSE \E ord \in TextOrders(input) :
                 \E view \in {with_view(input, f.found[1], f.found[2], ord)} :
                 \E bounds \in {optimize_bounds_outcome(view, matched.data, ord)} :
                 IF bounds # "ok"
                 THEN /\ calls' = Append(calls, Call("optimize_bounds", lines_view(view),
                                                      bounds, Zero))
                      /\ pc' = "panicked"
                      /\ result' = Some(Panicked(bounds))
                      /\ frame' = frame
                 ELSE \E o \in {optimize_bounds(view, matched.data, ord)} :
                      /\ calls' = Append(calls, Call("optimize_bounds", lines_view(view),
                                                      bounds, o.score))
                      /\ IF below_threshold(strategy, o.score)
                         THEN /\ pc' = "returned"
                              /\ result' = Some(Returned(topdown_result(f)))
                              /\ frame' = frame
                         ELSE /\ pc' = "outer"
                              /\ result' = result
                              /\ \E contained \in
                                     {ContainedResult(o.score,
                                          IdentifiedLicense(matched.name,
                                                            matched.license_type),
                                          lines_view(o.value))} :
                                    frame' = Some([f EXCEPT
                                       !.current_start = next_start(contained),
                                       !.containing = Append(@, contained)])
    /\ UNCHANGED <<t, last, na, nb, dres, licenses, slast, avars, strategy, input, xvars>>

NextScan ==
    \/ ScanElimination
    \/ EliminationPass
    \/ ScanTopDown
    \/ TopDownLoop
    \/ TopDownWindow
    \/ TopDownOptimize

SpecScan == InitScan /\ [][NextScan]_vars

----------------------------------------------------------------------------
(* Claims about scan, checked under SpecScan *)

\* the ScanResult of a scan that returned
Scanned == unwrap(unwrap(result).value)

\* the scan runs, or ran, scan_elimination past its first analyze
InElimination == strategy.mode = "Elimination" /\ pc \in {"pass", "returned"}

FirstAnalyzed ==
    /\ strategy.mode = "Elimination"
    /\ Len(calls) >= 1
    /\ calls[1].outcome = "ok"

\* scan returned right after its first analyze, nothing contained
ReturnedAtOnce ==
    /\ pc = "returned"
    /\ Len(calls) = 1
    /\ Scanned.containing = <<>>

OptimizeCalls == {i \in DOMAIN calls : calls[i].fn = "optimize_bounds"}

\* C16: in Elimination mode the loop runs at most max_passes passes and
\* stops at the first pass whose optimized score is below
\* confidence_threshold; containing never has more than max_passes entries,
\* and is empty when optimize is false
C16_PassesCapped ==
    (strategy.mode = "Elimination" /\ is_some(frame)) =>
        LET f == unwrap(frame) IN
        /\ Cardinality(OptimizeCalls) <= strategy.max_passes
        /\ Len(f.containing) <= strategy.max_passes
        /\ ~strategy.optimize => (OptimizeCalls = {} /\ f.containing = <<>>)
        /\ \A i \in OptimizeCalls :
              (calls[i].outcome = "ok"
                 /\ FLt(calls[i].score, strategy.confidence_threshold)) =>
                    (i = Len(calls) /\ pc = "returned")
        /\ pc = "returned" => Scanned.containing = f.containing

\* a scan ended by the cap: it made max_passes passes, each found a license,
\* and the text still matched a license when it returned
C16_Witness ==
    /\ InElimination /\ pc = "returned"
    /\ strategy.optimize
    /\ FGt(strategy.confidence_threshold, Zero)
    /\ Len(Scanned.containing) = strategy.max_passes
    /\ FGe(unwrap(frame).analysis.score, strategy.confidence_threshold)

\* every entry of a containing list meets the threshold and names a license
\* of the Store
AllReportable(containing) ==
    \A i \in DOMAIN containing :
       /\ FGe(containing[i].score, strategy.confidence_threshold)
       /\ containing[i].license.name \in DOMAIN licenses

\* C17: in both modes every ContainedResult has a score of at least
\* confidence_threshold and the name of a license of the Store, also when the
\* top-level license is None
C17_ContainedMeetThreshold ==
    /\ is_some(frame) => AllReportable(unwrap(frame).containing)
    /\ pc = "returned" => AllReportable(Scanned.containing)

\* an Elimination scan whose overall score stayed under a positive threshold,
\* so that the top-level license is None, reported a contained license
C17_Witness ==
    /\ InElimination /\ pc = "returned"
    /\ FGt(strategy.confidence_threshold, Zero)
    /\ Scanned.license = None
    /\ FLt(Scanned.score, strategy.confidence_threshold)
    /\ Len(Scanned.containing) >= 1

\* the scan runs, or ran, scan_topdown
InTopDown == strategy.mode = "TopDown" /\ is_some(frame)

\* C18: in TopDown mode the entries of containing are in document order and
\* do not overlap, each starting at least one line after the end of the one
\* before, and every line_range lies within [0, text_end]
C18_ContainedInDocumentOrder ==
    InTopDown =>
        LET f == unwrap(frame)
            c == f.containing
        IN  /\ \A i \in DOMAIN c :
                  /\ 0 <= c[i].line_range[1]
                  /\ c[i].line_range[1] <= c[i].line_range[2]
                  /\ c[i].line_range[2] <= lines_view(input)[2]
            /\ \A i \in 1..(Len(c) - 1) :
                  c[i + 1].line_range[1] >= c[i].line_range[2] + 1
            /\ pc = "returned" => Scanned.containing = c

\* a TopDown scan under a positive threshold returned two contained licenses
\* of different names
C18_Witness ==
    /\ InTopDown /\ pc = "returned"
    /\ FGt(strategy.confidence_threshold, Zero)
    /\ Len(Scanned.containing) = 2
    /\ Scanned.containing[1].license.name # Scanned.containing[2].license.name
    /\ Scanned.containing[1].line_range[1] < Scanned.containing[1].line_range[2]

\* the index in calls of the last call of topdown_find_contained_license
SearchStart ==
    LET finds == {i \in DOMAIN calls :
                    calls[i].fn = "topdown_find_contained_license"}
    IN  IF finds = {} THEN 0 ELSE CHOOSE i \in finds : \A j \in finds : j <= i

\* the windows the last search analyzed, and those of them that scored at
\* least the threshold
Windows == {i \in DOMAIN calls : i > SearchStart /\ calls[i].fn = "analyze"}
Hits ==
    {i \in Windows : /\ calls[i].outcome = "ok"
                     /\ FGe(calls[i].score, strategy.confidence_threshold)}

\* C19: within one window search of a TopDown scan, the first window scoring
\* below the threshold after one that reached it is the last window
\* analyzed; the window handed to optimize_bounds is the last one analyzed
\* that scored at least the threshold; and a search none of whose windows
\* reached the threshold returns None without calling optimize_bounds
C19_CoarseScan ==
    (strategy.mode = "TopDown" /\ SearchStart > 0) =>
        /\ \A i \in Windows :
              (/\ calls[i].outcome = "ok"
               /\ FLt(calls[i].score, strategy.confidence_threshold)
               /\ \E h \in Hits : h < i) => \A j \in Windows : j <= i
        /\ \A k \in OptimizeCalls :
              k > SearchStart =>
                 /\ Hits # {}
                 /\ calls[k].view =
                       calls[CHOOSE h \in Hits : \A g \in Hits : g <= h].view
        /\ (Hits = {} /\ pc \in {"outer", "returned"}) =>
              /\ pc = "returned"
              /\ \A k \in OptimizeCalls : k < SearchStart

\* how far a TopDown scan in state (f, p) is from its end at most: the lines
\* left after current_start count most, then the place in the loop (its
\* head, a window, the optimization), then the windows left in the search
Rank(f, p) ==
    LET T == f.text_end
        B == T * (T + 2) + T + 4
        left == (T + 2 - Min(f.current_start, T + 1)) * B
    IN  IF p = "outer" THEN left + B - 1
        ELSE IF p = "window"
        THEN left + 2 + (T - f.start) * (T + 2) + (T - f.end)
        ELSE IF p = "optimize" THEN left + 1
        ELSE 0

\* C20: a TopDown scan terminates whatever the step size: every step brings
\* it nearer to its end, every reported result moves the start of the next
\* search strictly forward, at most text_end results are reported, and the
\* loop ends when the start has reached text_end or a search returned None
C20_TopDownTerminates ==
    /\ [][(strategy.mode = "TopDown" /\ pc # "ready") =>
             /\ Rank(unwrap(frame'), pc') < Rank(unwrap(frame), pc)
             /\ (pc = "optimize" /\ pc' = "outer") =>
                   /\ unwrap(frame').current_start > unwrap(frame).current_start
                   /\ Len(unwrap(frame').containing)
                         = Len(unwrap(frame).containing) + 1
         ]_vars
    /\ [](InTopDown =>
             LET f == unwrap(frame) IN
             /\ strategy.step_size >= 1
             /\ Rank(f, pc) >= 0
             /\ pc = "window" => (f.start < f.text_end /\ f.end <= f.text_end)
             /\ Len(f.containing) <= f.text_end
             /\ pc = "returned" =>
                   \/ f.current_start >= f.text_end
                   \/ SearchStart > 0 /\ f.starting_at = f.current_start)

\* a TopDown scan reported a license and ended on a later search that
\* returned None before the start reached text_end
C20_Witness ==
    /\ InTopDown /\ pc = "returned"
    /\ Len(Scanned.containing) >= 1
    /\ unwrap(frame).current_start < unwrap(frame).text_end
    /\ unwrap(frame).starting_at = unwrap(frame).current_start

----------------------------------------------------------------------------
(* Cache (src/src/store/cache.rs), as built for targets other than wasm32.

   A stream is a sequence of tokens.  A byte of the version tag is a token;
   so are the markers, the decimal numbers and the words of the MessagePack
   payload, and the two tokens that open and close the zstd frame.  The
   serializer is rmp_serde's: a struct is the array of its fields in
   declaration order, a tuple and a Vec are arrays, a HashMap is a map
   written in its iteration order, None is nil, and a String is its length
   and its content.  A String of the model is a sequence of words. *)

\* CACHE_VERSION = b"askalono-04", byte by byte
CACHE_VERSION == <<"a", "s", "k", "a", "l", "o", "n", "o", "-", "0", "4">>

\* let mut header = [0u8; 11]
HEADER_LEN == 11

\* the greatest integer a serialized Store holds
MaxUint == 12
Uints == 0..MaxUint

RECURSIVE Concat(_)
\* the concatenation of a sequence of streams
Concat(ss) == IF ss = <<>> THEN <<>> ELSE Head(ss) \o Concat(Tail(ss))

RECURSIVE KeySeq(_)
\* the keys of a HashMap whose iteration order no reader depends on
KeySeq(S) ==
    IF S = {} THEN <<>>
    ELSE LET x == CHOOSE y \in S : TRUE IN <<x>> \o KeySeq(S \ {x})

\* rmp::encode of an integer, a string, nil, an array header, a map header
write_uint(n) == <<"uint", ToString(n)>>
write_str(ws) == <<"str", ToString(Len(ws))>> \o ws
write_nil == <<"nil">>
write_array_len(n) == <<"array", ToString(n)>>
write_map_len(n) == <<"map", ToString(n)>>

\* Serialize for NgramSet {map, n, size}
serialize_ngram(set) ==
    LET keys == KeySeq(DOMAIN set.map) IN
    write_array_len(3)
    \o write_map_len(Len(keys))
    \o Concat([i \in 1..Len(keys) |-> write_str(keys[i]) \o write_uint(set.map[keys[i]])])
    \o write_uint(set.n)
    \o write_uint(set.size)

\* Serialize for TextData {match_data, lines_view, lines_normalized,
\* text_processed}
serialize_textdata(td) ==
    write_array_len(4)
    \o serialize_ngram(td.match_data)
    \o write_array_len(2) \o write_uint(td.lines_view[1]) \o write_uint(td.lines_view[2])
    \o (IF is_some(td.lines_normalized)
        THEN LET lines == unwrap(td.lines_normalized) IN
             write_array_len(Len(lines))
             \o Concat([i \in 1..Len(lines) |-> write_str(lines[i])])
        ELSE write_nil)
    \o (IF is_some(td.text_processed)
        THEN write_str(unwrap(td.text_processed))
        ELSE write_nil)

\* Serialize for Vec<TextData>
serialize_texts(v) ==
    write_array_len(Len(v)) \o Concat([i \in 1..Len(v) |-> serialize_textdata(v[i])])

\* Serialize for LicenseEntry {original, aliases, headers, alternates}
serialize_entry(e) ==
    write_array_len(4)
    \o serialize_textdata(e.original)
    \o write_array_len(Len(e.aliases))
    \o Concat([i \in 1..Len(e.aliases) |-> write_str(<<e.aliases[i]>>)])
    \o serialize_texts(e.headers)
    \o serialize_texts(e.alternates)

\* Serialize for Store {licenses}; iter is the order licenses iterates in
serialize(lic, iter) ==
    write_array_len(1)
    \o write_map_len(Len(iter))
    \o Concat([i \in 1..Len(iter) |->
                  write_str(<<iter[i]>>) \o serialize_entry(lic[iter[i]])])

\* what a read returns: the value read and the stream after it, or a failure
Fail == [ok |-> FALSE, v |-> <<>>, rest |-> <<>>]
Done(v, rest) == [ok |-> TRUE, v |-> v, rest |-> rest]

\* Read::read_exact of n bytes
read_exact(s, n) ==
    IF Len(s) < n THEN Fail
    ELSE Done(SubSeq(s, 1, n), SubSeq(s, n + 1, Len(s)))

\* a marker and the number after it
read_len(marker, s) ==
    IF Len(s) >= 2 /\ s[1] = marker /\ \E n \in Uints : ToString(n) = s[2]
    THEN Done(CHOOSE n \in Uints : ToString(n) = s[2], SubSeq(s, 3, Len(s)))
    ELSE Fail

read_uint(s) == read_len("uint", s)

\* the ? of a read: the failure is returned at once, otherwise the read
\* goes on with the value read and the stream after it
Then(r, K(_)) ==
    CHOOSE out \in {IF x.ok THEN K(x) ELSE Fail : x \in {r}} : TRUE

\* Deserialize for String
read_str(s) ==
    Then(read_len("str", s), LAMBDA h : read_exact(h.rest, h.v))

RECURSIVE read_strs(_, _)
\* n Strings in a row
read_strs(s, n) ==
    IF n = 0 THEN Done(<<>>, s)
    ELSE Then(read_str(s), LAMBDA a :
         Then(read_strs(a.rest, n - 1), LAMBDA b :
         Done(<<a.v>> \o b.v, b.rest)))

RECURSIVE read_grams(_, _, _)
\* n entries of HashMap<String, u32>, inserted into m
read_grams(s, n, m) ==
    IF n = 0 THEN Done(m, s)
    ELSE Then(read_str(s), LAMBDA k :
         Then(read_uint(k.rest), LAMBDA c :
         read_grams(c.rest, n - 1, map_insert(m, k.v, c.v))))

\* Deserialize for NgramSet
read_ngram(s) ==
    Then(read_len("array", s), LAMBDA h :
    IF h.v # 3 THEN Fail
    ELSE Then(read_len("map", h.rest), LAMBDA l :
         Then(read_grams(l.rest, l.v, <<>>), LAMBDA m :
         Then(read_uint(m.rest), LAMBDA n :
         Then(read_uint(n.rest), LAMBDA size :
         Done([map |-> m.v, n |-> n.v, size |-> size.v], size.rest))))))

\* Deserialize for (usize, usize)
read_view(s) ==
    Then(read_len("array", s), LAMBDA h :
    IF h.v # 2 THEN Fail
    ELSE Then(read_uint(h.rest), LAMBDA a :
         Then(read_uint(a.rest), LAMBDA b :
         Done(<<a.v, b.v>>, b.rest))))

\* Deserialize for Option<Vec<String>>
read_lines(s) ==
    IF s # <<>> /\ s[1] = "nil" THEN Done(None, Tail(s))
    ELSE Then(read_len("array", s), LAMBDA h :
         Then(read_strs(h.rest, h.v), LAMBDA v :
         Done(Some(v.v), v.rest)))

\* Deserialize for Option<String>
read_text(s) ==
    IF s # <<>> /\ s[1] = "nil" THEN Done(None, Tail(s))
    ELSE Then(read_str(s), LAMBDA v : Done(Some(v.v), v.rest))

\* Deserialize for TextData
read_textdata(s) ==
    Then(read_len("array", s), LAMBDA h :
    IF h.v # 4 THEN Fail
    ELSE Then(read_ngram(h.rest), LAMBDA m :
         Then(read_view(m.rest), LAMBDA view :
         Then(read_lines(view.rest), LAMBDA lines :
         Then(read_text(lines.rest), LAMBDA text :
         Done([match_data |-> m.v,
               lines_view |-> view.v,
               lines_normalized |-> lines.v,
               text_processed |-> text.v],
              text.rest))))))

RECURSIVE read_textdatas(_, _)
\* n TextData in a row
read_textdatas(s, n) ==
    IF n = 0 THEN Done(<<>>, s)
    ELSE Then(read_textdata(s), LAMBDA a :
         Then(read_textdatas(a.rest, n - 1), LAMBDA b :
         Done(<<a.v>> \o b.v, b.rest)))

\* Deserialize for Vec<TextData>
read_texts(s) ==
    Then(read_len("array", s), LAMBDA h : read_textdatas(h.rest, h.v))

\* Deserialize for LicenseEntry
read_entry(s) ==
    Then(read_len("array", s), LAMBDA h :
    IF h.v # 4 THEN Fail
    ELSE Then(read_textdata(h.rest), LAMBDA original :
         Then(read_len("array", original.rest), LAMBDA l :
         Then(read_strs(l.rest, l.v), LAMBDA aliases :
         Then(read_texts(aliases.rest), LAMBDA headers :
         Then(read_texts(headers.rest), LAMBDA alternates :
         Done([original |-> original.v,
               aliases |-> [i \in 1..Len(aliases.v) |-> aliases.v[i][1]],
               alternates |-> alternates.v,
               headers |-> headers.v],
              alternates.rest)))))))

RECURSIVE read_entries(_, _, _)
\* n entries of HashMap<String, LicenseEntry>, inserted into m
read_entries(s, n, m) ==
    IF n = 0 THEN Done(m, s)
    ELSE Then(read_str(s), LAMBDA k :
         IF Len(k.v) # 1 THEN Fail
         ELSE Then(read_entry(k.rest), LAMBDA e :
              read_entries(e.rest, n - 1, map_insert(m, k.v[1], e.v))))

\* rmp_serde::decode::from_read::<Store>: Store.licenses
deserialize(s) ==
    Then(read_len("array", s), LAMBDA h :
    IF h.v # 1 THEN Fail
    ELSE Then(read_len("map", h.rest), LAMBDA l :
         read_entries(l.rest, l.v, <<>>)))

\* zstd::Encoder::new(writable, 21), copy, finish: one frame
zstd_encode(buf) == <<"zstd frame">> \o buf \o <<"zstd end">>

\* reading through zstd::Decoder: the content of the first frame; whatever
\* follows the frame is never read
zstd_decode(s) ==
    IF s = <<>> \/ s[1] # "zstd frame" \/ \A i \in DOMAIN s : s[i] # "zstd end"
    THEN Fail
    ELSE LET end == CHOOSE i \in DOMAIN s :
                       s[i] = "zstd end" /\ \A j \in 1..(i - 1) : s[j] # "zstd end"
         IN  Done(SubSeq(s, 2, end - 1), SubSeq(s, end + 1, Len(s)))

\* Store::to_cache: the bytes written
to_cache(lic, iter) == CACHE_VERSION \o zstd_encode(serialize(lic, iter))

\* what from_cache returns together with the calls it made on the stream
Loaded(outcome, steps, store) ==
    [outcome |-> outcome, steps |-> steps, store |-> store]

\* a plausible slip: only the name of the tag is compared, not its version
from_cache_any_version(readable) ==
    LET header == read_exact(readable, HEADER_LEN) IN
    IF ~header.ok THEN Loaded("Io", <<"read_exact">>, None)
    ELSE IF SubSeq(header.v, 1, 9) # SubSeq(CACHE_VERSION, 1, 9)
    THEN Loaded("cache version mismatch", <<"read_exact">>, None)
    ELSE LET dec == zstd_decode(header.rest)
             store == IF dec.ok THEN deserialize(dec.v) ELSE Fail
             steps == <<"read_exact", "Decoder::new", "from_read">>
         IN  IF store.ok THEN Loaded("ok", steps, Some(store.v))
             ELSE Loaded("Decode", steps, None)

\* Store::from_cache: Ok(store) ("ok"), the io::Error of read_exact ("Io"),
\* "cache version mismatch", or the error of from_read ("Decode")
from_cache(readable) ==
    LET header == read_exact(readable, HEADER_LEN) IN
    IF ~header.ok THEN Loaded("Io", <<"read_exact">>, None)
    ELSE IF header.v # CACHE_VERSION
    THEN Loaded("cache version mismatch", <<"read_exact">>, None)
    ELSE LET dec == zstd_decode(header.rest)
             store == IF dec.ok THEN deserialize(dec.v) ELSE Fail
             steps == <<"read_exact", "Decoder::new", "from_read">>
         IN  IF store.ok THEN Loaded("ok", steps, Some(store.v))
             ELSE Loaded("Decode", steps, None)

----------------------------------------------------------------------------
(* SpecCache: a Store is written to a file with to_cache, the file is read
   back with from_cache, and both Stores analyze a text.  The file may also
   hold something to_cache never wrote. *)

\* the Stores written
CacheStores ==
    LET ab == << <<"a", "b">> >>
        abab == << <<"a", "b">>, <<"a", "b">> >>
        cdcd == << <<"c", "d">>, <<"c", "d">> >>
        kept == textdata_new(abab, CHOOSE r \in HashOrders(abab) : TRUE)
        mit(data) == [name |-> "MIT", kind |-> "Original", data |-> data]
        isc(data) == [name |-> "ISC", kind |-> "Original", data |-> data]
    IN  { <<>>,
          build(<< mit(stored(ab)) >>),
          build(<< mit(stored(ab)), isc(stored(ab)) >>),
          build(<< mit(kept), isc(stored(cdcd)) >>),
          set_aliases(build(<< mit(kept),
                               [name |-> "MIT", kind |-> "Header",
                                data |-> stored(<< <<"a">> >>)] >>),
                      "MIT", <<"Expat">>) }

\* a file some to_cache wrote
SampleStream ==
    to_cache(build(<< [name |-> "MIT", kind |-> "Original",
                       data |-> stored(<< <<"a", "b">> >>)] >>), <<"MIT">>)

\* files no to_cache of this build wrote: a written file cut short, with one
\* byte of its tag changed, with the tag of the previous format, with one
\* token of its payload lost, and a written file with bytes appended
ForeignStreams ==
    LET w == SampleStream
        n == Len(w)
    IN  {SubSeq(w, 1, k) : k \in 0..(n - 1)}
        \cup {[w EXCEPT ![i] = "x"] : i \in 1..HEADER_LEN}
        \cup {[w EXCEPT ![HEADER_LEN] = "3"]}
        \cup {SubSeq(w, 1, k - 1) \o SubSeq(w, k + 1, n) : k \in (HEADER_LEN + 1)..n}
        \cup {w \o <<"x">>}

InitCache ==
    /\ licenses \in CacheStores
    /\ iteration \in IterOrders(DOMAIN licenses)
    /\ arg \in {None} \cup {Some(s) : s \in ForeignStreams}
    /\ ret = None
    /\ insertion = <<>> /\ query = None /\ par = None /\ single = None
    /\ slast = None
    /\ TextIdle /\ DiceIdle /\ ScanIdle

\* store.to_cache(File::create(path)): the file now holds what was written
ToCache ==
    /\ ret = None
    /\ arg # Some(to_cache(licenses, iteration))
    /\ arg' = Some(to_cache(licenses, iteration))
    /\ UNCHANGED <<t, last, na, nb, dres, licenses, slast, avars, svars, ret>>

\* Store::from_cache(File::open(path)); the HashMap of the Store read
\* iterates in an order of its own
FromCache ==
    /\ is_some(arg) /\ ret = None
    /\ \E r \in {from_cache(unwrap(arg))} :
          \E order \in IF r.outcome = "ok"
                       THEN IterOrders(DOMAIN unwrap(r.store)) ELSE {<<>>} :
             ret' = Some([loaded |-> r, iteration |-> order, compared |-> None])
    /\ UNCHANGED <<t, last, na, nb, dres, licenses, slast, avars, svars, arg>>

\* written.analyze(&text) and read.analyze(&text) for one text
CacheAnalyze ==
    /\ is_some(ret)
    /\ unwrap(ret).loaded.outcome = "ok"
    /\ unwrap(ret).compared = None
    /\ \E text \in AnalyzeTexts :
       \E data \in {textdata_new(text, CHOOSE r \in HashOrders(text) : TRUE)} :
       \E before \in analyze(licenses, iteration, data) :
       \E after \in analyze(unwrap(unwrap(ret).loaded.store),
                            unwrap(ret).iteration, data) :
          ret' = Some([unwrap(ret) EXCEPT
                          !.compared = Some([before |-> before, after |-> after])])
    /\ UNCHANGED <<t, last, na, nb, dres, licenses, slast, avars, svars, arg>>

NextCache == ToCache \/ FromCache \/ CacheAnalyze

SpecCache == InitCache /\ [][NextCache]_vars

----------------------------------------------------------------------------
(* Claims about the cache, checked under SpecCache *)

\* the stream from_cache was called on and what it returned
CacheRead == unwrap(ret).loaded
TagMatches(s) ==
    Len(s) >= HEADER_LEN /\ SubSeq(s, 1, HEADER_LEN) = CACHE_VERSION
DecoderStarted == \E i \in DOMAIN CacheRead.steps : CacheRead.steps[i] = "Decoder::new"

C22_CacheRoundTrip ==
    /\ TagMatches(to_cache(licenses, iteration))
    /\ (is_some(ret) /\ unwrap(arg) = to_cache(licenses, iteration)) =>
          /\ CacheRead.outcome = "ok"
          /\ DOMAIN unwrap(CacheRead.store) = DOMAIN licenses
          /\ is_some(unwrap(ret).compared) =>
                LET c == unwrap(unwrap(ret).compared) IN
                /\ c.after.outcome = c.before.outcome
                /\ c.before.outcome = "ok" =>
                      /\ unwrap(c.after.match).score = unwrap(c.before.match).score
                      /\ unwrap(c.after.match).name = unwrap(c.before.match).name
                      /\ unwrap(c.after.match).license_type
                            = unwrap(c.before.match).license_type

----------------------------------------------------------------------------
(* SPDX loader (src/src/store/spdx.rs).

   A directory is a set of files.  A file has a stem and an extension; a
   JSON file of license-list-data carries licenseId, isDeprecatedLicenseId,
   licenseText and, optionally, standardLicenseHeader.  As in that data set,
   the licenseId of a file is its stem, so no two files share one. *)

\* the file stems, in the order OsStr::cmp sorts them
Stems == <<"BSD", "ISC", "MIT", "X11">>

\* NgramSet == NgramSet, which eq_data calls: exact equality of the sets
ngram_eq(self, other) ==
    self.n = other.n /\ self.size = other.size /\ self.map = other.map

\* TextData::eq_data
eq_data(self, other) == ngram_eq(self.match_data, other.match_data)

\* TextData::new on the text of a JSON field; these texts have no common
\* prefix to remove
spdx_new(text) == textdata_new(text, CHOOSE r \in HashOrders(text) : TRUE)

\* a plausible slip: the text is always dropped
spdx_data_without_text(text, include_texts) == without_text(spdx_new(text))

\* match include_texts { false => TextData::new(text),
\*                       true => TextData::new(text).without_text() }
spdx_data(text, include_texts) ==
    IF include_texts THEN without_text(spdx_new(text)) ELSE spdx_new(text)

\* the keys whose original holds the match data of content
same_data(lic, content) == {k \in DOMAIN lic : eq_data(lic[k].original, content)}

\* a plausible slip: a license is stored under its own key even when an
\* identical one is present
load_file_no_alias(lic, file, include_texts) ==
    IF file.deprecated THEN [outcome |-> "ok", licenses |-> lic]
    ELSE IF ~is_some(file.licenseText)
    THEN [outcome |-> "missing licenseText", licenses |-> lic]
    ELSE LET name == file.licenseId
             content == spdx_data(unwrap(file.licenseText), include_texts)
             inserted == IF name \in DOMAIN lic THEN lic
                         ELSE map_insert(lic, name, LicenseEntry_new(content))
         IN  [outcome |-> "ok",
              licenses |->
                  IF is_some(file.standardLicenseHeader)
                  THEN [inserted EXCEPT ![name].headers =
                           <<spdx_data(unwrap(file.standardLicenseHeader),
                                       include_texts)>>]
                  ELSE inserted]

\* the body of the loop of load_spdx for one JSON file: how it ends and the
\* licenses after it
load_file(lic, file, include_texts) ==
    IF file.deprecated THEN [outcome |-> "ok", licenses |-> lic]
    ELSE IF ~is_some(file.licenseText)
    THEN [outcome |-> "missing licenseText", licenses |-> lic]
    ELSE LET name == file.licenseId
             content == spdx_data(unwrap(file.licenseText), include_texts)
             already == same_data(lic, content)
         IN  IF already # {}
             THEN [outcome |-> "ok",
                   licenses |-> [k \in DOMAIN lic |->
                                    IF k \in already
                                    THEN [lic[k] EXCEPT !.aliases = Append(@, name)]
                                    ELSE lic[k]]]
             ELSE LET inserted == IF name \in DOMAIN lic THEN lic
                                  ELSE map_insert(lic, name, LicenseEntry_new(content))
                  IN  [outcome |-> "ok",
                       licenses |->
                           IF is_some(file.standardLicenseHeader)
                           THEN [inserted EXCEPT ![name].headers =
                                    <<spdx_data(unwrap(file.standardLicenseHeader),
                                                include_texts)>>]
                           ELSE inserted]

\* the index in Stems of a stem
StemIndex(stem) == CHOOSE i \in DOMAIN Stems : Stems[i] = stem

\* paths: the files of dir whose extension is "json", sorted by stem
sorted_paths(dir) ==
    LET json == {f \in dir : f.extension = "json"}
        at == {StemIndex(f.stem) : f \in json}
        nth(i) == CHOOSE k \in at : Cardinality({j \in at : j < k}) = i - 1
    IN  [i \in 1..Cardinality(at) |->
            CHOOSE f \in json : StemIndex(f.stem) = nth(i)]

RECURSIVE load_paths(_, _, _, _)
\* the loop of load_spdx from the i-th path on; `?` returns the first error
load_paths(lic, paths, i, include_texts) ==
    IF i > Len(paths) THEN [outcome |-> "ok", licenses |-> lic]
    ELSE LET r == load_file(lic, paths[i], include_texts) IN
         IF r.outcome # "ok" THEN r
         ELSE load_paths(r.licenses, paths, i + 1, include_texts)

\* Store::load_spdx
load_spdx(lic, dir, include_texts) ==
    load_paths(lic, sorted_paths(dir), 1, include_texts)

----------------------------------------------------------------------------
(* SpecSpdx: load_spdx is called on an empty Store, and then again on the
   same directory *)

\* the most files a directory holds
MaxFiles == 3
\* the most calls of load_spdx on one Store
MaxLoads == 2

\* what a file of a given stem can be
FilesOf(stem) ==
    LET json(deprecated, text, header) ==
            [stem |-> stem, extension |-> "json", licenseId |-> stem,
             deprecated |-> deprecated, licenseText |-> text,
             standardLicenseHeader |-> header]
        ab == << <<"a", "b">>, <<"a", "b">> >>
        cd == << <<"c", "d">>, <<"c", "d">> >>
    IN  { json(FALSE, Some(ab), None),
          json(FALSE, Some(ab), Some(<< <<"a", "b">> >>)),
          json(FALSE, Some(cd), None),
          json(TRUE, Some(ab), None),
          json(FALSE, None, None),
          [json(FALSE, Some(ab), None) EXCEPT !.extension = "txt"] }

\* the directories: at most one file per stem
Directories ==
    LET files(present) == UNION {FilesOf(s) : s \in present} IN
    UNION {{{choice[s] : s \in present} :
               choice \in {c \in [present -> files(present)] :
                              \A s \in present : c[s] \in FilesOf(s)}} :
           present \in SUBSET {Stems[i] : i \in 1..MaxFiles}}

InitSpdx ==
    /\ licenses = <<>>
    /\ \E dir \in Directories : \E include_texts \in BOOLEAN :
          arg = Some([dir |-> dir, include_texts |-> include_texts])
    /\ ret = None
    /\ slast = None
    /\ TextIdle /\ DiceIdle /\ AnalyzeIdle /\ ScanIdle

\* store.load_spdx(dir, include_texts); ret keeps how each call ended and the
\* licenses after it
LoadSpdx ==
    /\ IF ret = None THEN TRUE ELSE Len(unwrap(ret)) < MaxLoads
    /\ \E r \in {load_spdx(licenses, unwrap(arg).dir, unwrap(arg).include_texts)} :
          /\ licenses' = r.licenses
          /\ ret' = Some(Append(IF ret = None THEN <<>> ELSE unwrap(ret), r))
    /\ UNCHANGED <<t, last, na, nb, dres, slast, avars, svars, arg>>

NextSpdx == LoadSpdx

SpecSpdx == InitSpdx /\ [][NextSpdx]_vars

----------------------------------------------------------------------------
(* Claims about load_spdx, checked under SpecSpdx *)

\* the directory loaded, the flag, and the calls made so far
SpdxDir == unwrap(arg).dir
IncludeTexts == unwrap(arg).include_texts
Loads == IF ret = None THEN <<>> ELSE unwrap(ret)
\* the files load_spdx stores from: JSON, not deprecated
Live == {f \in SpdxDir : f.extension = "json" /\ ~f.deprecated}

\* C23: calling load_spdx twice on the same directory, starting from an empty
\* Store, gives a Store equal to the one a single call gives: the same keys
\* and for every key the same original, headers, alternates and aliases
C23_LoadTwiceIsLoadOnce ==
    Len(Loads) = 2 => Loads[2].licenses = Loads[1].licenses

\* C24: after load_spdx into an empty Store no two keys have equal original
\* match data; a license that is not deprecated and whose match data equals
\* that of a license processed earlier is in the aliases of exactly that
\* earlier entry and is not a key; a deprecated license is neither a key nor
\* an alias
C24_EqualDataMergedAsAliases ==
    Len(Loads) = 1 =>
        LET paths == sorted_paths(SpdxDir)
            \* the files load_spdx got to before it returned
            done == IF Loads[1].outcome = "ok" THEN Len(paths)
                    ELSE CHOOSE i \in DOMAIN paths :
                            /\ ~paths[i].deprecated /\ ~is_some(paths[i].licenseText)
                            /\ \A j \in 1..(i - 1) :
                                  paths[j].deprecated \/ is_some(paths[j].licenseText)
            data(i) == spdx_new(unwrap(paths[i].licenseText)).match_data
            live == {i \in 1..done : ~paths[i].deprecated /\ is_some(paths[i].licenseText)}
            first(i) == CHOOSE j \in live :
                           /\ data(j) = data(i)
                           /\ \A k \in live : data(k) = data(i) => j <= k
            aliased(name, k) ==
                \E x \in DOMAIN licenses[k].aliases : licenses[k].aliases[x] = name
        IN  /\ \A k, m \in DOMAIN licenses :
                  k # m => licenses[k].original.match_data
                              # licenses[m].original.match_data
            /\ \A i \in live :
                  IF first(i) = i
                  THEN /\ paths[i].licenseId \in DOMAIN licenses
                       /\ \A k \in DOMAIN licenses : ~aliased(paths[i].licenseId, k)
                  ELSE /\ paths[i].licenseId \notin DOMAIN licenses
                       /\ \A k \in DOMAIN licenses :
                             aliased(paths[i].licenseId, k)
                                <=> k = paths[first(i)].licenseId
            /\ \A i \in DOMAIN paths :
                  paths[i].deprecated =>
                      /\ paths[i].licenseId \notin DOMAIN licenses
                      /\ \A k \in DOMAIN licenses : ~aliased(paths[i].licenseId, k)

\* three licenses with the same text were loaded: one key, the two later
\* ones its aliases in the order they were processed
C24_Witness ==
    /\ Len(Loads) = 1 /\ Loads[1].outcome = "ok"
    /\ Cardinality(Live) = 3
    /\ DOMAIN licenses = {"BSD"}
    /\ licenses["BSD"].aliases = <<"ISC", "MIT">>

\* every stored original and header TextData
StoredTexts ==
    UNION {{licenses[k].original} \cup
           {licenses[k].headers[i] : i \in DOMAIN licenses[k].headers} :
           k \in DOMAIN licenses}

\* C25: load_spdx(dir, include_texts) keeps the normalized text inside every
\* stored original and header when include_texts is true and stores them as
\* without_text leaves them when include_texts is false
C25_IncludeTextsKeepsText ==
    Len(Loads) = 1 =>
        \A data \in StoredTexts :
            IF IncludeTexts
            THEN is_some(data.lines_normalized) /\ is_some(data.text_processed)
            ELSE data = without_text(data)

----------------------------------------------------------------------------
(* The normalization pass at the level of characters
   (src/src/preproc.rs, apply_normalizers).

   A text is a sequence of characters of Chars: a letter, the space, the
   line feed, the carriage return (white space that ends no line here), a
   symbol that remove_junk deletes, the slash that counts as horizontal
   white space, and the double quote that normalize_punctuation rewrites.
   On these characters normalize_unicode and blackbox_urls change nothing. *)

Chars == {"a", " ", "\n", "\r", "$", "/", "\""}

\* the longest text, in characters
MaxChars == 4

\* char::is_whitespace
is_whitespace(c) == c \in {" ", "\n", "\r"}

RECURSIVE split_terminated(_, _)
\* a plausible slip, str::split_terminator: no empty piece after a final
\* separator
split_terminated(s, sep) ==
    IF s = <<>> THEN <<>>
    ELSE IF \A i \in DOMAIN s : s[i] # sep THEN <<s>>
    ELSE LET k == CHOOSE i \in DOMAIN s : s[i] = sep /\ \A j \in 1..(i - 1) : s[j] # sep
         IN  <<SubSeq(s, 1, k - 1)>> \o split_terminated(SubSeq(s, k + 1, Len(s)), sep)

RECURSIVE split(_, _)
\* str::split(sep): the pieces between the separators, empty ones included
split(s, sep) ==
    IF \A i \in DOMAIN s : s[i] # sep THEN <<s>>
    ELSE LET k == CHOOSE i \in DOMAIN s : s[i] = sep /\ \A j \in 1..(i - 1) : s[j] # sep
         IN  <<SubSeq(s, 1, k - 1)>> \o split(SubSeq(s, k + 1, Len(s)), sep)

\* remove_junk: [^\w\s\pP]+ is deleted
remove_junk(s) == SelectSeq(s, LAMBDA c : c # "$")

RECURSIVE normalize_horizontal_whitespace(_)
\* normalize_horizontal_whitespace: every run of blanks and slashes becomes
\* one space
normalize_horizontal_whitespace(s) ==
    IF s = <<>> THEN <<>>
    ELSE IF Head(s) \in {" ", "/"}
    THEN IF Len(s) > 1 /\ s[2] \in {" ", "/"}
         THEN normalize_horizontal_whitespace(Tail(s))
         ELSE <<" ">> \o normalize_horizontal_whitespace(Tail(s))
    ELSE <<Head(s)>> \o normalize_horizontal_whitespace(Tail(s))

RECURSIVE normalize_punctuation(_)
\* normalize_punctuation: every run of quotes becomes one apostrophe
normalize_punctuation(s) ==
    IF s = <<>> THEN <<>>
    ELSE IF Head(s) = "\""
    THEN IF Len(s) > 1 /\ s[2] = "\""
         THEN normalize_punctuation(Tail(s))
         ELSE <<"'">> \o normalize_punctuation(Tail(s))
    ELSE <<Head(s)>> \o normalize_punctuation(Tail(s))

\* str::trim: leading and trailing white space is cut
trim(s) ==
    LET keep == {i \in DOMAIN s : ~is_whitespace(s[i])} IN
    IF keep = {} THEN <<>>
    ELSE SubSeq(s, CHOOSE i \in keep : \A j \in keep : i <= j,
                   CHOOSE i \in keep : \A j \in keep : j <= i)

\* PREPROC_NORMALIZE applied in order to one line
normalize_line(line) ==
    trim(normalize_punctuation(normalize_horizontal_whitespace(remove_junk(line))))

\* apply_normalizers on the characters of a text
apply_normalizers_chars(s) ==
    LET lines == split(s, "\n") IN
    [i \in 1..Len(lines) |-> normalize_line(lines[i])]

----------------------------------------------------------------------------
(* SpecNormalize: apply_normalizers is called on a text *)

NormalizeTexts == UNION {[1..n -> Chars] : n \in 0..MaxChars}

InitNormalize ==
    /\ arg \in {Some(s) : s \in NormalizeTexts}
    /\ ret = None
    /\ TextIdle /\ DiceIdle /\ StoreIdle /\ AnalyzeIdle /\ ScanIdle

\* let lines = apply_normalizers(text)
ApplyNormalizers ==
    /\ ret = None
    /\ ret' = Some(apply_normalizers_chars(unwrap(arg)))
    /\ UNCHANGED <<t, last, na, nb, dres, licenses, slast, avars, svars, arg>>

NextNormalize == ApplyNormalizers

SpecNormalize == InitNormalize /\ [][NextNormalize]_vars

----------------------------------------------------------------------------
(* Claims about the normalization pass, checked under SpecNormalize *)

\* where the line feeds of the text are, and the text's i-th line: what lies
\* between the (i-1)-th and the i-th line feed
LineFeeds == {i \in DOMAIN unwrap(arg) : unwrap(arg)[i] = "\n"}
LineOf(i) ==
    LET s == unwrap(arg)
        from == IF i = 1 THEN 0
                ELSE CHOOSE k \in LineFeeds : Cardinality({j \in LineFeeds : j < k}) = i - 2
        to == IF i = Cardinality(LineFeeds) + 1 THEN Len(s) + 1
              ELSE CHOOSE k \in LineFeeds : Cardinality({j \in LineFeeds : j < k}) = i - 1
    IN  SubSeq(s, from + 1, to - 1)

\* C26: the normalization pass returns exactly as many lines as
\* text.split('\n') yields, one more than the text has line feeds, in the
\* same order: its i-th line is what the normalizers make of the i-th line
\* of the text, and no returned line holds a line feed
C26_NormalizationKeepsLines ==
    is_some(ret) =>
        LET lines == unwrap(ret) IN
        /\ Len(lines) = Cardinality(LineFeeds) + 1
        /\ \A i \in DOMAIN lines :
              /\ lines[i] = normalize_line(LineOf(i))
              /\ \A j \in DOMAIN lines[i] : lines[i][j] # "\n"

\* a text with an empty line in the middle and a line feed at its end came
\* back as four lines, the second and the last empty
C26_Witness ==
    /\ is_some(ret)
    /\ unwrap(arg) = <<"a", "\n", "\n", "\n">>
    /\ unwrap(ret) = << <<"a">>, <<>>, <<>>, <<>> >>

----------------------------------------------------------------------------
(* SpecAggressive: apply_aggressive is run on the same text more than once;
   every run builds its own prefix_counts, a HashMap that iterates in an
   order of its own *)

\* the most runs on one text
MaxRuns == 2

InitAggressive ==
    /\ arg \in {Some(s) : s \in Texts}
    /\ ret = None
    /\ TextIdle /\ DiceIdle /\ StoreIdle /\ AnalyzeIdle /\ ScanIdle

\* let processed = apply_aggressive(&lines.join("\n"))
ApplyAggressive ==
    /\ IF ret = None THEN TRUE ELSE Len(unwrap(ret)) < MaxRuns
    /\ \E ord \in HashOrders(unwrap(arg)) :
          ret' = Some(Append(IF ret = None THEN <<>> ELSE unwrap(ret),
                             apply_aggressive(unwrap(arg), ord)))
    /\ UNCHANGED <<t, last, na, nb, dres, licenses, slast, avars, svars, arg>>

NextAggressive == ApplyAggressive

SpecAggressive == InitAggressive /\ [][NextAggressive]_vars

----------------------------------------------------------------------------
(* Claims about the aggressive pass, checked under SpecAggressive *)

\* C27: the aggressive pass is deterministic: every execution on a text
\* gives the same output string, whatever order the table of prefix counts
\* is iterated in, ties for the highest count included
C27_AggressiveIsDeterministic ==
    (is_some(ret) /\ Len(unwrap(ret)) = 2) => unwrap(ret)[1] = unwrap(ret)[2]

----------------------------------------------------------------------------
(* SpecSearch: the ternary search of TextData::search_optimize
   (src/src/license.rs) on its own, over score functions without NaN *)

\* the greatest index searched
MaxIndex == 7

\* the scores a score function takes
ScoreValues == {Zero, <<1, 2>>, One}

RECURSIVE search_calls(_, _, _)
\* the indices fn search passes to its `score` argument, in order
search_calls(score, left, right) ==
    IF right - left <= 3 THEN [i \in 1..(right - left + 1) |-> left + i - 1]
    ELSE LET low == (left * 2 + right) \div 3
             high == (left + right * 2) \div 3
         IN  <<low, high>> \o
             (IF FGt(score[low], score[high])
              THEN search_calls(score, left, high - 1)
              ELSE search_calls(score, low + 1, right))

\* a plausible slip: no memo, every call evaluates the score
check_score_unmemoized(indices) == indices

RECURSIVE check_score(_)
\* check_score called on these indices in turn: the indices at which
\* memo.entry(index).or_insert_with runs the closure, that is evaluates
\* the score
check_score(indices) ==
    IF indices = <<>> THEN <<>>
    ELSE LET before == SubSeq(indices, 1, Len(indices) - 1)
             index == indices[Len(indices)]
         IN  IF \E i \in DOMAIN before : before[i] = index
             THEN check_score(before)
             ELSE Append(check_score(before), index)

InitSearch ==
    /\ \E left \in 0..1 : \E right \in left..MaxIndex :
       \E score \in [left..right -> ScoreValues] :
          arg = Some([score |-> score, left |-> left, right |-> right])
    /\ ret = None
    /\ TextIdle /\ DiceIdle /\ StoreIdle /\ AnalyzeIdle /\ ScanIdle

\* let optimal = search(&mut check_score, left, right)
Search ==
    /\ ret = None
    /\ LET a == unwrap(arg) IN
       ret' = Some([optimal |-> search(a.score, a.left, a.right),
                    calls |-> search_calls(a.score, a.left, a.right),
                    evaluated |-> check_score(search_calls(a.score, a.left, a.right))])
    /\ UNCHANGED <<t, last, na, nb, dres, licenses, slast, avars, svars, arg>>

NextSearch == Search

SpecSearch == InitSearch /\ [][NextSearch]_vars

----------------------------------------------------------------------------
(* Claims about the ternary search, checked under SpecSearch *)

\* C28: for a score function with values in [0, 1] and left <= right the
\* search ends and returns (i, s(i)) with left <= i <= right; when
\* right - left <= 3, i is the largest index of [left, right] at which s is
\* highest; s is evaluated at most once per index, and only at indices of
\* [left, right]
C28_SearchReturnsIndexInRange ==
    is_some(ret) =>
        LET a == unwrap(arg)
            r == unwrap(ret)
            i == r.optimal[1]
        IN  /\ a.left <= i /\ i <= a.right
            /\ r.optimal[2] = a.score[i]
            /\ a.right - a.left <= 3 =>
                  \A j \in a.left..a.right :
                      /\ FGe(a.score[i], a.score[j])
                      /\ a.score[j] = a.score[i] => j <= i
            /\ \A x, y \in DOMAIN r.evaluated :
                  x # y => r.evaluated[x] # r.evaluated[y]
            /\ \A x \in DOMAIN r.evaluated :
                  a.left <= r.evaluated[x] /\ r.evaluated[x] <= a.right
            /\ \E x \in DOMAIN r.evaluated : r.evaluated[x] = i

\* a search that narrowed its range twice and asked for a score it had
\* already computed
C28_Witness ==
    /\ is_some(ret)
    /\ unwrap(arg).right - unwrap(arg).left >= 7
    /\ Len(unwrap(ret).calls) > Len(unwrap(ret).evaluated)
    /\ Len(unwrap(ret).calls) = 7

----------------------------------------------------------------------------
(* SpecTrim: trim_byte_adjusted (src/src/preproc.rs) on UTF-8 strings.  A
   string is the sequence of its bytes; it is valid UTF-8 because it is the
   concatenation of encoded characters. *)

\* "a", U+00E9, U+20AC and U+1F600 in UTF-8: one to four bytes each
Utf8Chars == {<<97>>, <<195, 169>>, <<226, 130, 172>>, <<240, 159, 152, 128>>}

\* byte & 0b1100_0000 == 0b1000_0000
is_continuation(byte) == byte \div 64 = 2

\* str::is_char_boundary; index counts bytes from 0
is_char_boundary(s, index) ==
    \/ index = 0
    \/ index = Len(s)
    \/ index < Len(s) /\ ~is_continuation(s[index + 1])

\* s.as_bytes()[..idx].iter().rev().take_while(continuation).count()
trailing_continuation(s, idx) ==
    LET stops == {k \in 1..idx : ~is_continuation(s[k])} IN
    IF stops = {} THEN idx
    ELSE idx - (CHOOSE k \in stops : \A j \in stops : j <= k)

\* &s[..end]: the prefix, or the panic of a slice that is out of bounds or
\* not on a character boundary
slice_to(s, end) ==
    IF end < 0 THEN [outcome |-> "Overflow", value |-> <<>>]
    ELSE IF end > Len(s) \/ ~is_char_boundary(s, end)
    THEN [outcome |-> "SliceIndex", value |-> <<>>]
    ELSE [outcome |-> "ok", value |-> SubSeq(s, 1, end)]

\* a plausible slip: the first byte of the split character is not counted
trim_byte_adjusted_keeps_lead(s, idx) ==
    IF idx >= Len(s) THEN [outcome |-> "ok", value |-> s]
    ELSE IF is_char_boundary(s, idx) THEN slice_to(s, idx)
    ELSE slice_to(s, idx - trailing_continuation(s, idx))

\* trim_byte_adjusted: how it ends and the prefix it returns
trim_byte_adjusted(s, idx) ==
    IF idx >= Len(s) THEN [outcome |-> "ok", value |-> s]
    ELSE IF is_char_boundary(s, idx) THEN slice_to(s, idx)
    ELSE slice_to(s, idx - trailing_continuation(s, idx) - 1)

\* the strings of at most MaxChars characters, as sequences of characters
Utf8Strings == UNION {[1..n -> Utf8Chars] : n \in 0..MaxChars}

InitTrim ==
    /\ \E chars \in Utf8Strings : \E idx \in 0..(Len(Concat(chars)) + 1) :
          arg = Some([chars |-> chars, s |-> Concat(chars), idx |-> idx])
    /\ ret = None
    /\ TextIdle /\ DiceIdle /\ StoreIdle /\ AnalyzeIdle /\ ScanIdle

\* trim_byte_adjusted(s, idx)
TrimByteAdjusted ==
    /\ ret = None
    /\ ret' = Some(trim_byte_adjusted(unwrap(arg).s, unwrap(arg).idx))
    /\ UNCHANGED <<t, last, na, nb, dres, licenses, slast, avars, svars, arg>>

NextTrim == TrimByteAdjusted

SpecTrim == InitTrim /\ [][NextTrim]_vars

----------------------------------------------------------------------------
(* Claims about trim_byte_adjusted, checked under SpecTrim *)

\* the byte lengths of the prefixes of the string that end with a whole
\* character
Boundaries ==
    {Len(Concat(SubSeq(unwrap(arg).chars, 1, n))) : n \in 0..Len(unwrap(arg).chars)}

\* C29: for a valid UTF-8 string s and a byte index idx, trim_byte_adjusted
\* returns the longest prefix of s that ends on a character boundary and is
\* at most idx bytes long, the whole of s when idx >= len(s); it never
\* splits a multi-byte character and never fails
C29_TrimToCharBoundary ==
    is_some(ret) =>
        LET a == unwrap(arg)
            r == unwrap(ret)
            n == Len(r.value)
        IN  /\ r.outcome = "ok"
            /\ r.value = SubSeq(a.s, 1, n)
            /\ n <= a.idx
            /\ n \in Boundaries
            /\ \A b \in Boundaries : b <= a.idx => b <= n
            /\ a.idx >= Len(a.s) => r.value = a.s

\* an index on the last byte of a four-byte character that follows a
\* three-byte one: the prefix returned ends after the three-byte character
C29_Witness ==
    /\ is_some(ret)
    /\ unwrap(arg).s = <<226, 130, 172, 240, 159, 152, 128>>
    /\ unwrap(arg).idx = 6
    /\ unwrap(ret) = [outcome |-> "ok", value |-> <<226, 130, 172>>]

----------------------------------------------------------------------------
(* Claims about the ranges of an Elimination scan, checked under SpecScan *)

\* the line indices of a line_range: lines_view (start, end) shows
\* lines[start..end]
LinesOf(range) == {i \in 0..(range[2] - 1) : range[1] <= i}

\* C30: in Elimination mode with optimize = true the line ranges of
\* distinct entries of containing never overlap: no pass reports a range
\* that shares a line index with a range reported, and whited out, earlier
C30_EliminationRangesDisjoint ==
    (InElimination /\ strategy.optimize) =>
        LET c == unwrap(frame).containing IN
        \A i, j \in DOMAIN c :
            i < j => LinesOf(c[i].line_range) \cap LinesOf(c[j].line_range) = {}

====
